---- MODULE Spec2Model ----
(***************************************************************************)
(* Job-finder backend: the scrape pipeline (scrape_linkedin_jobs in        *)
(* main.py and in linkedin_scraper.py, search-URL building, concurrent     *)
(* calls, categorize_jobs), the resume field extractors and the PDF text   *)
(* extraction (resume_parser.py, upload_resume in main.py).                *)
(*                                                                         *)
(* Conventions.  A Python str is a sequence of one-character strings when  *)
(* its characters matter (the texts given to the regular expressions, the  *)
(* skills, the location and the URL) and a TLA+ string when it is only     *)
(* copied around (titles, links).  Python's None is the string None for    *)
(* optional strings and the empty tuple for an optional integer (<<>> is   *)
(* None, <<n>> is the integer n).                                          *)
(***************************************************************************)
EXTENDS Integers, Sequences, FiniteSets, TLC

VARIABLES
    impl,              \* which scrape_linkedin_jobs runs: "main" or "scraper"
    experience_years,  \* argument: <<>> (None) or <<n>>
    max_jobs,          \* argument: the cap
    location,          \* argument: the requested location, as characters
    skills,            \* argument: the skills, each as characters
    url,               \* the search URL, <<>> until it is built
    pc,                \* position of the scrape call
    driver,            \* the call's browser session: "none", "open", "closed"
    opened,            \* sessions the call has opened
    quits,             \* driver.quit() calls the call has made
    gets,              \* driver.get() calls the call has made
    scrolls,           \* scroll-and-wait steps done
    failedAt,          \* the step that raised, "none" if none did
    experience_level,  \* main.py: the level label; scraper: the f_E filter
    page,              \* the candidate cards of the rendered page
    jobs,              \* the local list of listings
    ret,               \* what the call hands to its caller, once it has returned
    raised,            \* TRUE when an exception reached the caller
    level_desc,        \* scraper: get_experience_level(experience_years) as printed
    cat_pc,            \* position of a categorize call
    cat_jobs,          \* categorize: the input sequence
    cat_k,             \* categorize: loop index
    jobs_with_email,   \* categorize: first output list
    jobs_with_link_only, \* categorize: second output list
    cat_ret,           \* categorize: the returned summary
    cat_fn,            \* categorize: the function called, "none" when idle
    cat_call,          \* categorize: 1 in the first call on the list, 2 in the second
    cat_first,         \* categorize: what the first call returned
    text,              \* the text given to a field extractor
    field_fn,          \* the extractor that was called, "none" before the call
    field_result,      \* what it returned
    calls,             \* concurrent scrape calls: each call's impl, pc, driver, scrolls
    sessions,          \* the browser sessions opened so far, in order of launch
    pdf_fn,            \* text extraction: "extract_text_from_pdf" or "upload_resume"
    pdf_openable,      \* whether the library can open the document
    pdf_pages,         \* the text the library gives for each page, in page order
    pdf_pc,            \* position of the extraction
    pdf_k,             \* the page the loop is at
    pdf_text,          \* the local text / resume_text
    pdf_bad_page,      \* the page whose text extraction raises, 0 if none does
    parse_docs,        \* the documents given to parse_resume, one call each
    parse_k,           \* the document the current parse_resume call is for
    parse_pc,          \* position of that call
    parse_results,     \* what the calls made so far gave their caller
    saved_jobs,        \* the rows of table saved_jobs: id, user_id, link
    requests,          \* the save-job and delete requests: arguments, position, response
    running,           \* the request whose handler the event loop is running, 0 if none
    before             \* table saved_jobs as it was when that handler began

vars == <<impl, experience_years, max_jobs, location, skills, url, pc, driver,
          opened, quits, gets, scrolls, failedAt, experience_level, page, jobs,
          ret, raised, level_desc, cat_pc, cat_jobs, cat_k, jobs_with_email,
          jobs_with_link_only, cat_ret, cat_fn, cat_call, cat_first, text, field_fn, field_result, calls,
          sessions, pdf_fn, pdf_openable, pdf_pages, pdf_pc, pdf_k, pdf_text,
          pdf_bad_page, parse_docs, parse_k, parse_pc, parse_results,
          saved_jobs, requests, running, before>>

scrapeVars == <<impl, experience_years, max_jobs, location, skills, url, pc,
                driver, opened, quits, gets, scrolls, failedAt,
                experience_level, page, jobs, ret, raised, level_desc>>

catVars == <<cat_pc, cat_jobs, cat_k, jobs_with_email, jobs_with_link_only, cat_ret,
            cat_fn, cat_call, cat_first>>

fieldVars == <<text, field_fn, field_result>>

callVars == <<calls, sessions>>

pdfVars == <<pdf_fn, pdf_openable, pdf_pages, pdf_pc, pdf_k, pdf_text,
             pdf_bad_page>>

parseVars == <<parse_docs, parse_k, parse_pc, parse_results>>

savedVars == <<saved_jobs, requests, running, before>>

None == "None"

\* ------------------------------------------------------------------ bounds
MaxYears == 6
MaxCap == 2
MaxCards == 3
MaxJobs == 3
MaxPieces == 2
NumCalls == 2
MaxSkills == 4
MaxPages == 3
MaxDocs == 2
MaxRequests == 3

\* ------------------------------------------------------- Python helpers
Min(a, b) == IF a <= b THEN a ELSE b

\* s[:n]
PySlice(s, n) ==
    IF n >= 0 THEN SubSeq(s, 1, Min(n, Len(s)))
    ELSE SubSeq(s, 1, IF Len(s) + n >= 0 THEN Len(s) + n ELSE 0)

\* ------------------------------------------------------------- the page
\* A card node as the parsers see it.  title, company, location: the text of
\* the element (stripped), or NoElem when the card has no such element.
\* link: the href, NoHref when the anchor has no href, NoElem without anchor.
NoElem == "<no element>"
NoHref == "<no href>"

Card(t, c, l, a) == [title |-> t, company |-> c, location |-> l, link |-> a]

CardKinds ==
    { Card("Dev", "Acme", "Pune", "https://l/1"),
      Card("QA", "Bolt", "Delhi", "https://l/2"),
      Card(NoElem, "Acme", "Pune", "https://l/3"),
      Card("Ops", NoElem, "Pune", "https://l/4"),
      Card("SRE", "Core", NoElem, "https://l/5"),
      Card("PM", "Dune", "Pune", NoElem),
      Card("UX", "Echo", "Pune", NoHref),
      Card("", "Flux", "Pune", "https://l/8") }

RECURSIVE SeqsUpTo(_, _)
SeqsUpTo(S, n) ==
    IF n = 0 THEN {<<>>}
    ELSE LET shorter == SeqsUpTo(S, n - 1)
         IN  shorter \cup {Append(s, x) : s \in {t \in shorter : Len(t) = n - 1}, x \in S}

\* The two pages of the worked examples: 10 cards of which the 4th has no
\* title; 20 valid cards.
TenCardsFourthUntitled ==
    [i \in 1..10 |-> IF i = 4 THEN Card(NoElem, "Acme", "Pune", "https://l/3")
                     ELSE IF i % 2 = 0 THEN Card("QA", "Bolt", "Delhi", "https://l/2")
                     ELSE Card("Dev", "Acme", "Pune", "https://l/1")]

TwentyValidCards ==
    [i \in 1..20 |-> IF i % 2 = 0 THEN Card("QA", "Bolt", "Delhi", "https://l/2")
                     ELSE Card("Dev", "Acme", "Pune", "https://l/1")]

\* The pages the browser may render for a call with the given cap: every page
\* of at most MaxCards cards for the small caps, the example page for the
\* caps of the worked examples.
ShortPages == SeqsUpTo(CardKinds, MaxCards)

PagesFor(cap) ==
    IF cap = 10 THEN {TenCardsFourthUntitled}
    ELSE IF cap = 5 THEN {TwentyValidCards}
    ELSE ShortPages

Years == {<<>>} \cup {<<n>> : n \in 0..MaxYears}
India == <<"I", "n", "d", "i", "a">>

\* ------------------------------------------------- experience level mapping
\* main.py: experience_level of the call.  None <= 2 raises TypeError.
Main_LevelRaises(years) == years = <<>> 

Main_experience_level(years) ==
    LET y == years[1]
    IN  IF y = 0 THEN "Internship"
        ELSE IF y <= 2 THEN "Entry level"
        ELSE IF y <= 5 THEN "Associate"
        ELSE "Mid-Senior level"

\* linkedin_scraper.py: the experience filter appended to the search URL.
Scraper_experience_filter(years) ==
    IF years = <<>> THEN ""
    ELSE LET y == years[1]
         IN  IF y = 0 THEN "&f_E=1"
             ELSE IF y <= 2 THEN "&f_E=1,2"
             ELSE IF y <= 5 THEN "&f_E=3,4"
             ELSE "&f_E=5,6"

\* linkedin_scraper.py defines get_experience_level twice; the first
\* definition is rebound by the second before any call.
get_experience_level_first(years) ==
    IF years = <<>> THEN "All Levels"
    ELSE LET y == years[1]
         IN  IF y <= 2 THEN "Entry Level (0-2 years)"
             ELSE IF y <= 5 THEN "Mid Level (2-5 years)"
             ELSE "Senior Level (5+ years)"

get_experience_level(years) ==
    IF years = <<>> THEN "All Levels"
    ELSE LET y == years[1]
         IN  IF y = 0 THEN "Fresher/Internship (0 years)"
             ELSE IF y <= 2 THEN "Entry Level (0-2 years)"
             ELSE IF y <= 5 THEN "Mid Level (2-5 years)"
             ELSE "Senior Level (5+ years)"

\* ------------------------------------------------------- card extraction
\* main.py, body of the card loop: the listing appended for one card, as a
\* sequence of length 0 or 1.  card.find gives None for a missing element;
\* link_elem['href'] raises KeyError without href, caught by the card's try.
Main_ParseCard(card, loc, level) ==
    IF card.title # NoElem /\ card.company # NoElem /\ card.link # NoElem
    THEN IF card.link = NoHref THEN <<>>
         ELSE << [title |-> card.title,
                  company |-> card.company,
                  location |-> IF card.location # NoElem THEN card.location ELSE loc,
                  link |-> card.link,
                  experience_level |-> level] >>
    ELSE <<>>

RECURSIVE Main_ParseLoop(_, _, _, _)
Main_ParseLoop(cards, k, loc, level) ==
    IF k > Len(cards) THEN <<>>
    ELSE Main_ParseCard(cards[k], loc, level) \o Main_ParseLoop(cards, k + 1, loc, level)

\* The card loop run over every card of the page.
Main_ParseCardsWholePage(cards, cap, loc, level) == Main_ParseLoop(cards, 1, loc, level)

\* for card in job_cards[:max_jobs * 2]
Main_ParseCards(cards, cap, loc, level) ==
    Main_ParseLoop(PySlice(cards, cap * 2), 1, loc, level)

\* A card loop body that fills hr_email with an address found for the card.
Scraper_ParseCardWithContact(card, idx) ==
    IF card.title = NoElem \/ card.company = NoElem
       \/ card.location = NoElem \/ card.link = NoElem
    THEN <<>>
    ELSE << [id |-> idx,
             title |-> card.title,
             company |-> card.company,
             location |-> card.location,
             link |-> IF card.link = NoHref THEN None ELSE card.link,
             hr_email |-> IF card.company = "Acme" THEN "hr@acme.com" ELSE None] >>

\* linkedin_scraper.py, body of the card loop.  find_element raises
\* NoSuchElementException for a missing element (title, company, location or
\* anchor), caught by the card's try; get_attribute("href") gives None
\* without href.
Scraper_ParseCard(card, idx) ==
    IF card.title = NoElem \/ card.company = NoElem
       \/ card.location = NoElem \/ card.link = NoElem
    THEN <<>>
    ELSE << [id |-> idx,
             title |-> card.title,
             company |-> card.company,
             location |-> card.location,
             link |-> IF card.link = NoHref THEN None ELSE card.link,
             hr_email |-> None] >>

RECURSIVE Scraper_ParseLoop(_, _)
Scraper_ParseLoop(cards, k) ==
    IF k > Len(cards) THEN <<>>
    ELSE Scraper_ParseCard(cards[k], k) \o Scraper_ParseLoop(cards, k + 1)

\* for idx, card in enumerate(job_cards[:max_jobs], 1)
Scraper_ParseCards(cards, cap) == Scraper_ParseLoop(PySlice(cards, cap), 1)

\* ----------------------------------------------------- the search URL
\* The characters of the level labels and filters.
Chars(s) ==
    CASE s = "Internship" -> <<"I", "n", "t", "e", "r", "n", "s", "h", "i", "p">>
      [] s = "Entry level" -> <<"E", "n", "t", "r", "y", " ", "l", "e", "v", "e", "l">>
      [] s = "Associate" -> <<"A", "s", "s", "o", "c", "i", "a", "t", "e">>
      [] s = "Mid-Senior level" -> <<"M", "i", "d", "-", "S", "e", "n", "i", "o", "r", " ", "l", "e", "v", "e", "l">>
      [] s = "" -> <<>>
      [] s = "&f_E=1" -> <<"&", "f", "_", "E", "=", "1">>
      [] s = "&f_E=1,2" -> <<"&", "f", "_", "E", "=", "1", ",", "2">>
      [] s = "&f_E=3,4" -> <<"&", "f", "_", "E", "=", "3", ",", "4">>
      [] s = "&f_E=5,6" -> <<"&", "f", "_", "E", "=", "5", ",", "6">>

UrlPrefix ==
    <<"h", "t", "t", "p", "s", ":", "/", "/", "w", "w", "w", ".", "l", "i",
      "n", "k", "e", "d", "i", "n", ".", "c", "o", "m", "/", "j", "o", "b",
      "s", "/", "s", "e", "a", "r", "c", "h", "/", "?", "k", "e", "y", "w",
      "o", "r", "d", "s", "=">>

LocationParam == <<"&", "l", "o", "c", "a", "t", "i", "o", "n", "=">>

\* sep.join(strs)
RECURSIVE Join(_, _)
Join(sep, strs) ==
    IF strs = <<>> THEN <<>>
    ELSE IF Len(strs) = 1 THEN strs[1]
    ELSE strs[1] \o sep \o Join(sep, Tail(strs))

\* t.replace(ch, new) for a one-character ch
RECURSIVE Replace(_, _, _)
Replace(t, ch, new) ==
    IF t = <<>> THEN <<>>
    ELSE (IF Head(t) = ch THEN new ELSE <<Head(t)>>) \o Replace(Tail(t), ch, new)

\* The skills shown by the banner of linkedin_scraper.py (skills[:5]) used
\* for the query as well.
TopSkillsAsPrinted(s) == PySlice(s, 5)

\* skills[:3]
TopSkills(s) == PySlice(s, 3)

\* main.py: the level label is part of the keywords; spaces become %20.
Main_url(s, loc, level) ==
    LET skills_query == Join(<<" ">>, TopSkills(s))
        search_query == skills_query \o <<" ">> \o Chars(level)
        encoded_query == Replace(search_query, " ", <<"%", "2", "0">>)
        encoded_location == Replace(loc, " ", <<"%", "2", "0">>)
    IN  UrlPrefix \o encoded_query \o LocationParam \o encoded_location

\* linkedin_scraper.py: the skills joined by "+", the location as given,
\* then the experience filter.
Scraper_url(s, loc, years) ==
    LET keywords == Join(<<"+">>, TopSkills(s))
    IN  UrlPrefix \o keywords \o LocationParam \o loc
            \o Chars(Scraper_experience_filter(years))

\* The skills and locations given to query building.
QuerySkills ==
    SeqsUpTo({ <<"P", "y", "t", "h", "o", "n">>,
               <<"R", "e", "a", "c", "t">>,
               <<"m", "a", "c", "h", "i", "n", "e", " ", "l", "e", "a", "r",
                 "n", "i", "n", "g">> },
             MaxSkills)

\* --------------------------------------------------- the scrape call
ScrollSteps == 10

InitScrape ==
    /\ impl \in {"main", "scraper"}
    /\ experience_years \in Years
    /\ max_jobs \in 0..MaxCap \cup {5, 10}
    /\ location = India
    /\ skills = << <<"P", "y", "t", "h", "o", "n">>, <<"R", "e", "a", "c", "t">> >>
    /\ url = <<>>
    /\ pc = "start"
    /\ driver = "none"
    /\ opened = 0
    /\ quits = 0
    /\ gets = 0
    /\ scrolls = 0
    /\ failedAt = "none"
    /\ experience_level = None
    /\ level_desc = None
    /\ page = <<>>
    /\ jobs = <<>>
    /\ ret = <<>>
    /\ raised = FALSE

\* A call at the start of its try block, the browser launched.
QueryArguments ==
    /\ impl \in {"main", "scraper"}
    /\ experience_years \in Years
    /\ max_jobs = 1
    /\ location \in {India, <<"N", "e", "w", " ", "D", "e", "l", "h", "i">>}
    /\ skills \in QuerySkills
    /\ url = <<>>
    /\ pc = "build"
    /\ driver = "open"
    /\ opened = 1
    /\ quits = 0
    /\ gets = 0
    /\ scrolls = 0
    /\ failedAt = "none"
    /\ experience_level = None
    /\ level_desc = IF impl = "scraper" THEN get_experience_level(experience_years)
                    ELSE None
    /\ page = <<>>
    /\ jobs = <<>>
    /\ ret = <<>>
    /\ raised = FALSE

IdleCategorize ==
    /\ cat_pc = "idle"
    /\ cat_jobs = <<>>
    /\ cat_k = 0
    /\ jobs_with_email = <<>>
    /\ jobs_with_link_only = <<>>
    /\ cat_ret = None
    /\ cat_fn = "none"
    /\ cat_call = 0
    /\ cat_first = None

\* An exception inside the outer try: control goes to the except clause.
Raise(step) ==
    /\ failedAt' = step
    /\ pc' = "except"

\* The browser launch.  main.py builds the driver before its try, so a
\* launch failure leaves the function as an exception; linkedin_scraper.py
\* calls setup_driver inside the try (driver stays None on failure).
SetupDriver ==
    /\ pc = "start"
    /\ level_desc' = IF impl = "scraper" THEN get_experience_level(experience_years)
                     ELSE level_desc
    /\ \E ok \in BOOLEAN :
         IF ok
         THEN /\ driver' = "open"
              /\ opened' = opened + 1
              /\ pc' = "build"
              /\ UNCHANGED <<failedAt, raised>>
         ELSE /\ UNCHANGED <<driver, opened>>
              /\ IF impl = "main"
                 THEN /\ failedAt' = "launch"
                      /\ raised' = TRUE
                      /\ pc' = "returned"
                 ELSE /\ Raise("launch")
                      /\ UNCHANGED raised
    /\ UNCHANGED <<impl, experience_years, max_jobs, location, skills, url,
                   quits, gets, scrolls, experience_level, page, jobs, ret>>
    /\ UNCHANGED <<catVars, fieldVars, callVars, pdfVars, parseVars, savedVars>>

\* Experience level and search URL.
BuildQuery ==
    /\ pc = "build"
    /\ IF impl = "main"
       THEN IF Main_LevelRaises(experience_years)
            THEN /\ Raise("level")
                 /\ UNCHANGED <<experience_level, url>>
            ELSE /\ experience_level' = Main_experience_level(experience_years)
                 /\ url' = Main_url(skills, location,
                                    Main_experience_level(experience_years))
                 /\ pc' = "get"
                 /\ UNCHANGED failedAt
       ELSE /\ experience_level' = Scraper_experience_filter(experience_years)
            /\ url' = Scraper_url(skills, location, experience_years)
            /\ pc' = "get"
            /\ UNCHANGED failedAt
    /\ UNCHANGED <<impl, experience_years, max_jobs, location, skills, driver,
                   opened, quits, gets, scrolls, page, jobs, ret, raised,
                   level_desc>>
    /\ UNCHANGED <<catVars, fieldVars, callVars, pdfVars, parseVars, savedVars>>

\* driver.get(url) tried a second time when the first load fails.
NavigateWithRetry ==
    /\ pc = "get"
    /\ \E ok \in BOOLEAN :
         IF ok
         THEN /\ gets' = gets + 1
              /\ pc' = IF impl = "main" THEN "scroll" ELSE "snapshot"
              /\ UNCHANGED failedAt
         ELSE /\ gets' = gets + 2
              /\ \E second \in BOOLEAN :
                   IF second
                   THEN /\ pc' = IF impl = "main" THEN "scroll" ELSE "snapshot"
                        /\ UNCHANGED failedAt
                   ELSE Raise("navigate")
    /\ UNCHANGED <<impl, experience_years, max_jobs, location, skills, url,
                   driver, opened, quits, scrolls, experience_level, page, jobs,
                   ret, raised, level_desc>>
    /\ UNCHANGED <<catVars, fieldVars, callVars, pdfVars, parseVars, savedVars>>

\* driver.get(url), then the fixed sleep.
Navigate ==
    /\ pc = "get"
    /\ gets' = gets + 1
    /\ \E ok \in BOOLEAN :
         IF ok
         THEN /\ pc' = IF impl = "main" THEN "scroll" ELSE "snapshot"
              /\ UNCHANGED failedAt
         ELSE Raise("navigate")
    /\ UNCHANGED <<impl, experience_years, max_jobs, location, skills, url,
                   driver, opened, quits, scrolls, experience_level, page, jobs,
                   ret, raised, level_desc>>
    /\ UNCHANGED <<catVars, fieldVars, callVars, pdfVars, parseVars, savedVars>>

\* A scroll loop that may stop before the fixed count, when a step finds
\* that the page has stopped growing.
ScrollUntilLoaded ==
    /\ pc = "scroll"
    /\ \E ok \in BOOLEAN :
         IF ok
         THEN /\ scrolls' = scrolls + 1
              /\ \E grew \in BOOLEAN :
                   pc' = IF scrolls + 1 = ScrollSteps \/ ~grew
                         THEN "snapshot" ELSE "scroll"
              /\ UNCHANGED failedAt
         ELSE /\ Raise("scroll")
              /\ UNCHANGED scrolls
    /\ UNCHANGED <<impl, experience_years, max_jobs, location, skills, url,
                   driver, opened, quits, gets, experience_level, page, jobs,
                   ret, raised, level_desc>>
    /\ UNCHANGED <<catVars, fieldVars, callVars, pdfVars, parseVars, savedVars>>

\* main.py: one pass of for scroll_count in range(10).
Scroll ==
    /\ pc = "scroll"
    /\ \E ok \in BOOLEAN :
         IF ok
         THEN /\ scrolls' = scrolls + 1
              /\ pc' = IF scrolls + 1 = ScrollSteps THEN "snapshot" ELSE "scroll"
              /\ UNCHANGED failedAt
         ELSE /\ Raise("scroll")
              /\ UNCHANGED scrolls
    /\ UNCHANGED <<impl, experience_years, max_jobs, location, skills, url,
                   driver, opened, quits, gets, experience_level, page, jobs,
                   ret, raised, level_desc>>
    /\ UNCHANGED <<catVars, fieldVars, callVars, pdfVars, parseVars, savedVars>>

\* The rendered cards are read (driver.page_source and find_all in main.py,
\* driver.find_elements in linkedin_scraper.py).
Snapshot ==
    /\ pc = "snapshot"
    /\ \/ /\ page' \in PagesFor(max_jobs)
          /\ pc' = "parse"
          /\ UNCHANGED failedAt
       \/ /\ Raise("snapshot")
          /\ UNCHANGED page
    /\ UNCHANGED <<impl, experience_years, max_jobs, location, skills, url,
                   driver, opened, quits, gets, scrolls, experience_level, jobs,
                   ret, raised, level_desc>>
    /\ UNCHANGED <<catVars, fieldVars, callVars, pdfVars, parseVars, savedVars>>

\* The card loop.  linkedin_scraper.py returns jobs from inside the try.
ParseCards ==
    /\ pc = "parse"
    /\ jobs' = IF impl = "main"
               THEN Main_ParseCards(page, max_jobs, location, experience_level)
               ELSE Scraper_ParseCards(page, max_jobs)
    /\ ret' = IF impl = "main" THEN ret
              ELSE Scraper_ParseCards(page, max_jobs)
    /\ pc' = "finally"
    /\ UNCHANGED <<impl, experience_years, max_jobs, location, skills, url,
                   driver, opened, quits, gets, scrolls, failedAt,
                   experience_level, page, raised, level_desc>>
    /\ UNCHANGED <<catVars, fieldVars, callVars, pdfVars, parseVars, savedVars>>

\* except Exception: main.py only prints; linkedin_scraper.py returns [].
Except ==
    /\ pc = "except"
    /\ ret' = IF impl = "main" THEN ret ELSE <<>>
    /\ pc' = "finally"
    /\ UNCHANGED <<impl, experience_years, max_jobs, location, skills, url,
                   driver, opened, quits, gets, scrolls, failedAt,
                   experience_level, page, jobs, raised, level_desc>>
    /\ UNCHANGED <<catVars, fieldVars, callVars, pdfVars, parseVars, savedVars>>

\* The finally clause left out when the try block raised.
FinallyOnlyOnSuccess ==
    /\ pc = "finally"
    /\ IF driver = "open" /\ failedAt = "none"
       THEN /\ driver' = "closed"
            /\ quits' = quits + 1
       ELSE UNCHANGED <<driver, quits>>
    /\ pc' = "return"
    /\ UNCHANGED <<impl, experience_years, max_jobs, location, skills, url,
                   opened, gets, scrolls, failedAt, experience_level, page,
                   jobs, ret, raised, level_desc>>
    /\ UNCHANGED <<catVars, fieldVars, callVars, pdfVars, parseVars, savedVars>>

\* finally: driver.quit()  (guarded by "if driver" in linkedin_scraper.py;
\* in main.py the driver is always bound when the try is entered).
Finally ==
    /\ pc = "finally"
    /\ IF driver = "open"
       THEN /\ driver' = "closed"
            /\ quits' = quits + 1
       ELSE UNCHANGED <<driver, quits>>
    /\ pc' = "return"
    /\ UNCHANGED <<impl, experience_years, max_jobs, location, skills, url,
                   opened, gets, scrolls, failedAt, experience_level, page,
                   jobs, ret, raised, level_desc>>
    /\ UNCHANGED <<catVars, fieldVars, callVars, pdfVars, parseVars, savedVars>>

\* The value handed to the caller: jobs[:max_jobs] in main.py, the value of
\* the pending return statement in linkedin_scraper.py.
Return ==
    /\ pc = "return"
    /\ ret' = IF impl = "main" THEN PySlice(jobs, max_jobs) ELSE ret
    /\ pc' = "returned"
    /\ UNCHANGED <<impl, experience_years, max_jobs, location, skills, url,
                   driver, opened, quits, gets, scrolls, failedAt,
                   experience_level, page, jobs, raised, level_desc>>
    /\ UNCHANGED <<catVars, fieldVars, callVars, pdfVars, parseVars, savedVars>>

\* --------------------------------------------------------- categorize
\* The listings given to a categorize call.  A listing of main.py carries no
\* hr_email key at all.
\* job.get('hr_email')
GetHrEmail(job) == IF "hr_email" \in DOMAIN job THEN job.hr_email ELSE None

\* Python truth value of an optional string.
Truthy(x) == x # None /\ x # ""

CategorizeArguments ==
    /\ cat_pc \in {"categorize_jobs", "search_jobs"}
    /\ cat_jobs \in SeqsUpTo(
         { [title |-> "Dev", link |-> "https://l/1", hr_email |-> None],
           [title |-> "QA", link |-> "https://l/2", hr_email |-> "hr@bolt.com"],
           [title |-> "Ops", link |-> "https://l/4", hr_email |-> ""],
           [title |-> "SRE", link |-> "https://l/5"],
           [title |-> "PM", link |-> "https://l/6", hr_email |-> "jobs@dune.io"] },
         MaxJobs)
    /\ cat_k = 1
    /\ jobs_with_email = <<>>
    /\ jobs_with_link_only = <<>>
    /\ cat_ret = None
    /\ cat_fn = cat_pc
    /\ cat_call = 1
    /\ cat_first = None

IdleScrape ==
    /\ impl = "scraper"
    /\ experience_years = <<>>
    /\ max_jobs = 0
    /\ location = India
    /\ skills = <<>>
    /\ url = <<>>
    /\ pc = "idle"
    /\ driver = "none"
    /\ opened = 0
    /\ quits = 0
    /\ gets = 0
    /\ scrolls = 0
    /\ failedAt = "none"
    /\ experience_level = None
    /\ level_desc = None
    /\ page = <<>>
    /\ jobs = <<>>
    /\ ret = <<>>
    /\ raised = FALSE

\* A loop body that files a listing only under a non-None hr_email test and
\* an "is None" test, so a listing with an empty hr_email is filed nowhere.
CategorizeStepDropsEmpty ==
    /\ cat_pc \in {"categorize_jobs", "search_jobs"}
    /\ cat_k <= Len(cat_jobs)
    /\ LET job == cat_jobs[cat_k]
       IN  IF Truthy(GetHrEmail(job))
           THEN /\ jobs_with_email' = Append(jobs_with_email, job)
                /\ UNCHANGED jobs_with_link_only
           ELSE IF GetHrEmail(job) = None
           THEN /\ jobs_with_link_only' = Append(jobs_with_link_only, job)
                /\ UNCHANGED jobs_with_email
           ELSE UNCHANGED <<jobs_with_email, jobs_with_link_only>>
    /\ cat_k' = cat_k + 1
    /\ UNCHANGED <<cat_pc, cat_jobs, cat_ret, cat_fn, cat_call, cat_first>>
    /\ UNCHANGED <<scrapeVars, fieldVars, callVars, pdfVars, parseVars, savedVars>>

\* One pass of "for job in jobs" (categorize_jobs, and the same loop inlined
\* in search_jobs).
CategorizeStep ==
    /\ cat_pc \in {"categorize_jobs", "search_jobs"}
    /\ cat_k <= Len(cat_jobs)
    /\ LET job == cat_jobs[cat_k]
       IN  IF Truthy(GetHrEmail(job))
           THEN /\ jobs_with_email' = Append(jobs_with_email, job)
                /\ UNCHANGED jobs_with_link_only
           ELSE /\ jobs_with_link_only' = Append(jobs_with_link_only, job)
                /\ UNCHANGED jobs_with_email
    /\ cat_k' = cat_k + 1
    /\ UNCHANGED <<cat_pc, cat_jobs, cat_ret, cat_fn, cat_call, cat_first>>
    /\ UNCHANGED <<scrapeVars, fieldVars, callVars, pdfVars, parseVars, savedVars>>

\* A summary whose jobs_without_email counts the whole input.
CategorizeReturnCountingAll ==
    /\ cat_pc \in {"categorize_jobs", "search_jobs"}
    /\ cat_k > Len(cat_jobs)
    /\ cat_ret' = IF cat_pc = "categorize_jobs"
                  THEN [direct_contact_jobs |-> jobs_with_email,
                        standard_jobs |-> jobs_with_link_only,
                        total_jobs |-> Len(cat_jobs),
                        jobs_with_email |-> Len(jobs_with_email),
                        jobs_without_email |-> Len(cat_jobs)]
                  ELSE [total_jobs |-> Len(cat_jobs),
                        jobs_with_email |-> jobs_with_email,
                        jobs_without_email |-> cat_jobs,
                        direct_contact_jobs |-> jobs_with_email,
                        standard_jobs |-> jobs_with_link_only]
    /\ cat_pc' = "done"
    /\ UNCHANGED <<cat_jobs, cat_k, jobs_with_email, jobs_with_link_only,
                   cat_fn, cat_call, cat_first>>
    /\ UNCHANGED <<scrapeVars, fieldVars, callVars, pdfVars, parseVars, savedVars>>

\* The returned dictionary.  In categorize_jobs the keys jobs_with_email and
\* jobs_without_email hold counts; in search_jobs they hold the lists.
CategorizeReturn ==
    /\ cat_pc \in {"categorize_jobs", "search_jobs"}
    /\ cat_k > Len(cat_jobs)
    /\ cat_ret' = IF cat_pc = "categorize_jobs"
                  THEN [direct_contact_jobs |-> jobs_with_email,
                        standard_jobs |-> jobs_with_link_only,
                        total_jobs |-> Len(cat_jobs),
                        jobs_with_email |-> Len(jobs_with_email),
                        jobs_without_email |-> Len(jobs_with_link_only)]
                  ELSE [total_jobs |-> Len(cat_jobs),
                        jobs_with_email |-> jobs_with_email,
                        jobs_without_email |-> jobs_with_link_only,
                        direct_contact_jobs |-> jobs_with_email,
                        standard_jobs |-> jobs_with_link_only]
    /\ cat_pc' = "done"
    /\ UNCHANGED <<cat_jobs, cat_k, jobs_with_email, jobs_with_link_only,
                   cat_fn, cat_call, cat_first>>
    /\ UNCHANGED <<scrapeVars, fieldVars, callVars, pdfVars, parseVars, savedVars>>

\* A second call that goes on with the lists of the first, as lists kept
\* outside the function would.
CategorizeAgainKeepingLists ==
    /\ cat_pc = "done"
    /\ cat_call = 1
    /\ cat_first' = cat_ret
    /\ cat_call' = 2
    /\ cat_pc' = cat_fn
    /\ cat_k' = 1
    /\ UNCHANGED <<jobs_with_email, jobs_with_link_only>>
    /\ UNCHANGED <<cat_jobs, cat_ret, cat_fn>>
    /\ UNCHANGED <<scrapeVars, fieldVars, callVars, pdfVars, parseVars, savedVars>>

\* The caller calls again with the list it passed before: the two lists are
\* locals, created empty by every call.
CategorizeAgain ==
    /\ cat_pc = "done"
    /\ cat_call = 1
    /\ cat_first' = cat_ret
    /\ cat_call' = 2
    /\ cat_pc' = cat_fn
    /\ cat_k' = 1
    /\ jobs_with_email' = <<>>
    /\ jobs_with_link_only' = <<>>
    /\ UNCHANGED <<cat_jobs, cat_ret, cat_fn>>
    /\ UNCHANGED <<scrapeVars, fieldVars, callVars, pdfVars, parseVars, savedVars>>

\* The caller of a scrape call passes the returned list to the loop:
\* search_jobs in main.py (491-500), test_scraper.py with categorize_jobs
\* when the list is not empty (12-27).
CategorizeScraped ==
    /\ pc = "returned"
    /\ ~raised
    /\ cat_pc = "idle"
    /\ impl = "scraper" => ret # <<>>
    /\ cat_pc' = IF impl = "main" THEN "search_jobs" ELSE "categorize_jobs"
    /\ cat_fn' = IF impl = "main" THEN "search_jobs" ELSE "categorize_jobs"
    /\ cat_call' = 1
    /\ cat_jobs' = ret
    /\ cat_k' = 1
    /\ UNCHANGED <<jobs_with_email, jobs_with_link_only, cat_ret, cat_first>>
    /\ UNCHANGED <<scrapeVars, fieldVars, callVars, pdfVars, parseVars, savedVars>>

\* ----------------------------------------------------------- characters
LowerLetters ==
    <<"a", "b", "c", "d", "e", "f", "g", "h", "i", "j", "k", "l", "m", "n",
      "o", "p", "q", "r", "s", "t", "u", "v", "w", "x", "y", "z">>

UpperLetters ==
    <<"A", "B", "C", "D", "E", "F", "G", "H", "I", "J", "K", "L", "M", "N",
      "O", "P", "Q", "R", "S", "T", "U", "V", "W", "X", "Y", "Z">>

Lower == {LowerLetters[i] : i \in 1..Len(LowerLetters)}
Upper == {UpperLetters[i] : i \in 1..Len(UpperLetters)}
Digit == {"0", "1", "2", "3", "4", "5", "6", "7", "8", "9"}

\* \s of the regular expressions, and what str.strip() and str.split() drop.
Whitespace == {" ", "\t", "\n", "\r", "\f"}

\* \w: what \b tells apart from the rest.
WordChar == Lower \cup Upper \cup Digit \cup {"_"}

ToLower == [c \in Upper |-> LowerLetters[CHOOSE i \in 1..Len(UpperLetters) : UpperLetters[i] = c]]

\* ------------------------------------------------------------- the texts
\* The texts given to the field extractors: up to MaxPieces pieces of one
\* family put end to end, and the worked examples.
EmailPieces ==
    << <<"n", "o", "r", "e", "p", "l", "y", "@", "c", "o", "r", "p", ".", "c",
         "o", "m">>,
       <<"j", "a", "n", "e", "@", "c", "o", "r", "p", ".", "c", "o", "m">>,
       <<",", " ">>,
       <<"N", "o", "-", "R", "e", "p", "l", "y", "@", "x", ".", "i", "o">>,
       <<"b", "o", "b", "_", "7", "@", "m", "a", "i", "l", ".", "c", "o", ".",
         "i", "n", ".">>,
       <<"h", "r", "@", "a", ".", "b">>,
       <<"-", "k", "@", "d", ".", "i", "o", "|", "x">> >>

PhonePieces ==
    << <<"+", "9", "1", "-", "9", "8", "7", "6", "5", "4", "3", "2", "1",
         "0">>,
       <<"+", "9", "1", "9", "1", "2", "3", "4", "5", "6", "7", "8", "0">>,
       <<"9", "8", "7", "6", "5", "4", "3", "2", "1", "0">>,
       <<"9", "8", "7", "6", "5", " ", "4", "3", "2", "1", "0">>,
       <<" ">>,
       <<"+", "9", "1", "\n", "9", "0", "0", "0", "0", "0", "0", "0", "0",
         "1">>,
       <<"1", "2", "3", "4", "5">> >>

SkillPieces ==
    << <<"P", "y", "t", "h", "o", "n">>,
       <<"R", "e", "a", "c", "t">>,
       <<" ">>,
       <<"J", "a", "v", "a", "S", "c", "r", "i", "p", "t">>,
       <<"s", "c", "i", "k", "i", "t", "-", "l", "e", "a", "r", "n">>,
       <<"e", "m", "a", "i", "l">>,
       <<"P", "Y", "T", "H", "O", "N">> >>

NamePieces ==
    << <<"J", "a", "n", "e", " ", "A", ".", " ", "D", "o", "e">>,
       <<"\n">>,
       <<"j", "a", "n", "e", "@", "d", "o", "e", ".", "c", "o", "m">>,
       <<" ", " ">>,
       <<"R", "e", "s", "u", "m", "e", " ", "o", "f", " ", "M", "s", " ", "J",
         "a", "n", "e", " ", "D", "o", "e">>,
       <<" ", "B", "o", "b", "\t">> >>

Ex_Contact ==
    <<"c", "o", "n", "t", "a", "c", "t", ":", " ", "n", "o", "r", "e", "p",
      "l", "y", "@", "c", "o", "r", "p", ".", "c", "o", "m", ",", " ", "j",
      "a", "n", "e", "@", "c", "o", "r", "p", ".", "c", "o", "m">>

Ex_PhoneLaterPattern ==
    <<"9", "8", "7", "6", "5", " ", "4", "3", "2", "1", "0", " ", "o", "r",
      " ", "+", "9", "1", "-", "9", "8", "7", "6", "5", "4", "3", "2", "1",
      "0">>

Ex_Skills ==
    <<"E", "x", "p", "e", "r", "i", "e", "n", "c", "e", "d", " ", "i", "n",
      " ", "P", "y", "t", "h", "o", "n", " ", "a", "n", "d", " ", "R", "e",
      "a", "c", "t", " ", "d", "e", "v", "e", "l", "o", "p", "m", "e", "n",
      "t">>

Ex_Name ==
    <<"J", "a", "n", "e", " ", "A", ".", " ", "D", "o", "e", "\n", "j", "a",
      "n", "e", "@", "d", "o", "e", ".", "c", "o", "m">>

Ex_NameSixthLine ==
    <<"a", "@", "b", "\n", "\n", " ", " ", "\n", "R", "e", "s", "u", "m", "e",
      " ", "o", "f", " ", "M", "s", " ", "J", "a", "n", "e", " ", "D", "o",
      "e", "\n", "x", "@", "y", "\n", "J", "a", "n", "e", " ", "D", "o", "e">>

Ex_NameFifthLine ==
    <<"a", "@", "b", "\n", "\n", " ", " ", "\n", "R", "e", "s", "u", "m", "e",
      " ", "o", "f", " ", "M", "s", " ", "J", "a", "n", "e", " ", "D", "o",
      "e", "\n", " ", "J", "a", "n", "e", " ", "D", "o", "e", " ", "\n", "B",
      "o", "b">>

RECURSIVE Concat(_)
Concat(ps) == IF ps = <<>> THEN <<>> ELSE Head(ps) \o Concat(Tail(ps))

PieceTexts(pieces) ==
    {Concat(ps) : ps \in SeqsUpTo({pieces[i] : i \in 1..Len(pieces)}, MaxPieces)}

\* ------------------------------------------------- regular expressions
\* Positions are 1-based; a match is given by its start and the position
\* after its last character, 0 meaning no match at that start.
At(t, i) == IF i >= 1 /\ i <= Len(t) THEN t[i] ELSE ""

\* \b before position i
Boundary(t, i) == (At(t, i - 1) \in WordChar) # (At(t, i) \in WordChar)

\* First position from i on whose character is not in C.
RECURSIVE RunEnd(_, _, _)
RunEnd(t, i, C) == IF i <= Len(t) /\ t[i] \in C THEN RunEnd(t, i + 1, C) ELSE i

Maximum(S) == CHOOSE x \in S : \A y \in S : y <= x
Minimum(S) == CHOOSE x \in S : \A y \in S : x <= y

DigitsAt(t, i, n) == \A k \in 0..(n - 1) : At(t, i + k) \in Digit

\* \b[A-Za-z0-9._%+-]+@[A-Za-z0-9.-]+\.[A-Z|a-z]{2,}\b

\* [A-Z|a-z]{2,}\b from position i: the longest run that ends at a boundary.
TldEnd(t, i) ==
    LET top == RunEnd(t, i, Lower \cup Upper \cup {"|"})
        ends == {e \in (i + 2)..top : Boundary(t, e)}
    IN  IF ends = {} THEN 0 ELSE Maximum(ends)

\* The local part cannot give back characters (none of them is "@"); the
\* domain part is greedy, so the last dot that a top-level part can follow
\* is the one taken.
EmailMatchEnd(t, s) ==
    IF ~Boundary(t, s) THEN 0
    ELSE LET a == RunEnd(t, s, Lower \cup Upper \cup Digit \cup {".", "_", "%", "+", "-"})
         IN  IF a = s \/ At(t, a) # "@" THEN 0
             ELSE LET dtop == RunEnd(t, a + 1, Lower \cup Upper \cup Digit \cup {".", "-"})
                      dots == {p \in (a + 2)..(dtop - 1) :
                                  t[p] = "." /\ TldEnd(t, p + 1) # 0}
                  IN  IF dots = {} THEN 0 ELSE TldEnd(t, Maximum(dots) + 1)

\* \+91[-\s]?\d{10}
PlusSepMatchEnd(t, s) ==
    IF At(t, s) = "+" /\ At(t, s + 1) = "9" /\ At(t, s + 2) = "1"
    THEN IF At(t, s + 3) \in ({"-"} \cup Whitespace) /\ DigitsAt(t, s + 4, 10)
         THEN s + 14
         ELSE IF DigitsAt(t, s + 3, 10) THEN s + 13 ELSE 0
    ELSE 0

\* \+91\d{10}
PlusMatchEnd(t, s) ==
    IF At(t, s) = "+" /\ At(t, s + 1) = "9" /\ At(t, s + 2) = "1"
       /\ DigitsAt(t, s + 3, 10)
    THEN s + 13 ELSE 0

\* \d{10}
TenDigitsMatchEnd(t, s) == IF DigitsAt(t, s, 10) THEN s + 10 ELSE 0

\* \d{5}\s?\d{5}
FiveFiveMatchEnd(t, s) ==
    IF DigitsAt(t, s, 5)
    THEN IF At(t, s + 5) \in Whitespace /\ DigitsAt(t, s + 6, 5) THEN s + 11
         ELSE IF DigitsAt(t, s + 5, 5) THEN s + 10 ELSE 0
    ELSE 0

MatchEnd(pattern, t, s) ==
    CASE pattern = "email" -> EmailMatchEnd(t, s)
      [] pattern = "+91 sep 10 digits" -> PlusSepMatchEnd(t, s)
      [] pattern = "+91 10 digits" -> PlusMatchEnd(t, s)
      [] pattern = "10 digits" -> TenDigitsMatchEnd(t, s)
      [] pattern = "5 digits 5 digits" -> FiveFiveMatchEnd(t, s)

\* re.findall(pattern, text): the matches from left to right, each search
\* resuming where the last match ended.
RECURSIVE FindAllFrom(_, _, _)
FindAllFrom(pattern, t, s) ==
    IF s > Len(t) THEN <<>>
    ELSE LET e == MatchEnd(pattern, t, s)
         IN  IF e = 0 THEN FindAllFrom(pattern, t, s + 1)
             ELSE <<SubSeq(t, s, e - 1)>> \o FindAllFrom(pattern, t, e)

findall(pattern, t) == FindAllFrom(pattern, t, 1)

\* ------------------------------------------------------- str methods
\* str.lower()
lower(t) == [i \in 1..Len(t) |-> IF t[i] \in Upper THEN ToLower[t[i]] ELSE t[i]]

\* str.title(): a letter is put in upper case after a character that is no
\* letter (or at the start), in lower case after a letter.
title(t) ==
    [i \in 1..Len(t) |->
        IF At(t, i - 1) \in (Lower \cup Upper)
        THEN IF t[i] \in Upper THEN ToLower[t[i]] ELSE t[i]
        ELSE IF t[i] \in Lower
             THEN UpperLetters[CHOOSE k \in 1..Len(LowerLetters) :
                                   LowerLetters[k] = t[i]]
             ELSE t[i]]

\* needle in haystack
Contains(hay, needle) ==
    \E i \in 1..(Len(hay) - Len(needle) + 1) :
        \A k \in 1..Len(needle) : hay[i + k - 1] = needle[k]

\* str.replace(ch, '')
Remove(t, ch) == SelectSeq(t, LAMBDA c : c # ch)

\* str.split('\n')
RECURSIVE SplitLinesFrom(_, _, _)
SplitLinesFrom(t, start, i) ==
    IF i > Len(t) THEN <<SubSeq(t, start, Len(t))>>
    ELSE IF t[i] = "\n"
         THEN <<SubSeq(t, start, i - 1)>> \o SplitLinesFrom(t, i + 1, i + 1)
         ELSE SplitLinesFrom(t, start, i + 1)

\* str.strip()
strip(t) ==
    LET keep == {i \in 1..Len(t) : t[i] \notin Whitespace}
    IN  IF keep = {} THEN <<>> ELSE SubSeq(t, Minimum(keep), Maximum(keep))

\* len(str.split())
WordCount(t) ==
    Cardinality({i \in 1..Len(t) :
                    t[i] \notin Whitespace /\ (i = 1 \/ t[i - 1] \in Whitespace)})

\* -------------------------------------------------- resume_parser.py
\* An optional result is <<>> for None and <<v>> for the value v.
Some(v) == <<v>>

email_pattern == "email"

\* A call that ends in an exception instead of a value.
Raises(exception) == << <<exception>>, <<>> >>

\* emails[0] taken without the test for an empty list.
extract_email_unguarded(t) ==
    LET emails == findall(email_pattern, t)
    IN  IF emails # <<>> THEN Some(emails[1]) ELSE Raises("IndexError")

extract_email(t) ==
    LET emails == findall(email_pattern, t)
    IN  IF emails # <<>> THEN Some(emails[1]) ELSE <<>>

Denylist ==
    { <<"n", "o", "r", "e", "p", "l", "y">>,
      <<"n", "o", "-", "r", "e", "p", "l", "y">>,
      <<"d", "o", "n", "o", "t", "r", "e", "p", "l", "y">> }

\* linkedin_scraper.py: the list of the addresses that hold no denylisted
\* word.
extract_email_from_text(t) ==
    IF t = <<>> THEN <<>>
    ELSE SelectSeq(findall(email_pattern, t),
                   LAMBDA email : ~ \E x \in Denylist : Contains(lower(email), x))

phone_patterns_digits_first ==
    <<"10 digits", "5 digits 5 digits", "+91 sep 10 digits", "+91 10 digits">>

phone_patterns ==
    <<"+91 sep 10 digits", "+91 10 digits", "10 digits", "5 digits 5 digits">>

\* phones[0].replace(' ', '').replace('-', '')
CleanPhoneHyphenOnly(m) == Remove(m, "-")

CleanPhone(m) == Remove(Remove(m, " "), "-")

RECURSIVE ExtractPhoneFrom(_, _)
ExtractPhoneFrom(t, k) ==
    IF k > Len(phone_patterns) THEN <<>>
    ELSE LET phones == findall(phone_patterns[k], t)
         IN  IF phones # <<>> THEN Some(CleanPhone(phones[1]))
             ELSE ExtractPhoneFrom(t, k + 1)

extract_phone(t) == ExtractPhoneFrom(t, 1)

skill_keywords ==
    << <<"p", "y", "t", "h", "o", "n">>,
       <<"j", "a", "v", "a", "s", "c", "r", "i", "p", "t">>,
       <<"j", "a", "v", "a">>,
       <<"r", "e", "a", "c", "t">>,
       <<"n", "o", "d", "e">>,
       <<"f", "a", "s", "t", "a", "p", "i">>,
       <<"f", "l", "a", "s", "k">>,
       <<"d", "j", "a", "n", "g", "o">>,
       <<"h", "t", "m", "l">>,
       <<"c", "s", "s">>,
       <<"s", "q", "l">>,
       <<"m", "y", "s", "q", "l">>,
       <<"m", "o", "n", "g", "o", "d", "b">>,
       <<"t", "e", "n", "s", "o", "r", "f", "l", "o", "w">>,
       <<"p", "y", "t", "o", "r", "c", "h">>,
       <<"s", "c", "i", "k", "i", "t", "-", "l", "e", "a", "r", "n">>,
       <<"p", "a", "n", "d", "a", "s">>,
       <<"n", "u", "m", "p", "y">>,
       <<"l", "a", "n", "g", "c", "h", "a", "i", "n">>,
       <<"l", "l", "m">>,
       <<"n", "l", "p">>,
       <<"m", "a", "c", "h", "i", "n", "e", " ", "l", "e", "a", "r", "n", "i",
         "n", "g">>,
       <<"d", "e", "e", "p", " ", "l", "e", "a", "r", "n", "i", "n", "g">>,
       <<"a", "i">>,
       <<"a", "r", "t", "i", "f", "i", "c", "i", "a", "l", " ", "i", "n", "t",
         "e", "l", "l", "i", "g", "e", "n", "c", "e">>,
       <<"g", "i", "t">>,
       <<"g", "i", "t", "h", "u", "b">>,
       <<"d", "o", "c", "k", "e", "r">>,
       <<"a", "w", "s">>,
       <<"a", "z", "u", "r", "e">>,
       <<"g", "c", "p">>,
       <<"a", "p", "i">>,
       <<"r", "e", "s", "t">>,
       <<"g", "r", "a", "p", "h", "q", "l">>,
       <<"t", "y", "p", "e", "s", "c", "r", "i", "p", "t">>,
       <<"a", "n", "g", "u", "l", "a", "r">>,
       <<"v", "u", "e">>,
       <<"e", "x", "p", "r", "e", "s", "s">>,
       <<"b", "o", "o", "t", "s", "t", "r", "a", "p">>,
       <<"t", "a", "i", "l", "w", "i", "n", "d">>,
       <<"r", "e", "d", "u", "x">>,
       <<"n", "e", "x", "t", "j", "s">>,
       <<"n", "e", "s", "t", "j", "s">>,
       <<"s", "p", "r", "i", "n", "g", " ", "b", "o", "o", "t">>,
       <<"c", "+", "+">>,
       <<"c", "#">>,
       <<"r", "u", "b", "y">>,
       <<"p", "h", "p">>,
       <<"s", "w", "i", "f", "t">>,
       <<"k", "o", "t", "l", "i", "n">>,
       <<"r", "u", "s", "t">>,
       <<"o", "p", "e", "n", "c", "v">>,
       <<"k", "e", "r", "a", "s">>,
       <<"s", "p", "a", "r", "k">>,
       <<"h", "a", "d", "o", "o", "p">>,
       <<"k", "a", "f", "k", "a">>,
       <<"r", "e", "d", "i", "s">>,
       <<"f", "a", "i", "s", "s">>,
       <<"h", "u", "g", "g", "i", "n", "g", " ", "f", "a", "c", "e">>,
       <<"r", "a", "g">>,
       <<"s", "e", "m", "a", "n", "t", "i", "c", " ", "s", "e", "a", "r", "c",
         "h">> >>

\* The membership test made on the text as given, not on text.lower().
FoundSkillsCaseSensitive(t) ==
    SelectSeq(skill_keywords, LAMBDA skill : Contains(t, skill))

\* The loop of extract_skills: the vocabulary terms found in text.lower(),
\* in vocabulary order.
FoundSkills(t) ==
    LET text_lower == lower(t)
    IN  SelectSeq(skill_keywords, LAMBDA skill : Contains(text_lower, skill))

\* found_skills after the loop, each term in title case.
found_skills(t) == LET f == FoundSkills(t) IN [i \in 1..Len(f) |-> title(f[i])]

RECURSIVE Orderings(_)
Orderings(S) ==
    IF S = {} THEN {<<>>}
    ELSE UNION {{<<x>> \o r : r \in Orderings(S \ {x})} : x \in S}

\* list(set(found_skills)): the distinct elements, in an order the set's
\* hashing decides.
extract_skills(t) ==
    LET found == found_skills(t)
    IN  Orderings({found[i] : i \in 1..Len(found)})

NameLines == 5

\* The test of one line of extract_name, on the stripped line.
NameLineQualifiesAnyLength(line) == line # <<>> /\ ~Contains(line, <<"@">>)

NameLineQualifies(line) ==
    line # <<>> /\ WordCount(line) <= 4 /\ ~Contains(line, <<"@">>)

RECURSIVE ExtractNameFrom(_, _)
ExtractNameFrom(lines, k) ==
    IF k > Len(lines) THEN <<>>
    ELSE LET line == strip(lines[k])
         IN  IF NameLineQualifies(line) THEN Some(line)
             ELSE ExtractNameFrom(lines, k + 1)

extract_name(t) == ExtractNameFrom(PySlice(SplitLinesFrom(t, 1, 1), NameLines), 1)

\* parse_resume: the returned dict, built from the extracted text.
Profile(raw, listed) ==
    [name |-> extract_name(raw),
     email |-> extract_email(raw),
     phone |-> extract_phone(raw),
     skills |-> listed,
     raw_text |-> raw]

\* ------------------------------------------ the field extractor calls
FieldArguments ==
    /\ text \in PieceTexts(EmailPieces) \cup PieceTexts(PhonePieces)
                 \cup PieceTexts(SkillPieces) \cup PieceTexts(NamePieces)
                 \cup {Ex_Contact, Ex_PhoneLaterPattern, Ex_Skills, Ex_Name,
                       Ex_NameSixthLine, Ex_NameFifthLine}
    /\ field_fn = "none"
    /\ field_result = <<>>

IdleFields ==
    /\ text = <<>>
    /\ field_fn = "idle"
    /\ field_result = <<>>

\* The call returns: its result is kept for the caller.
Returns(fn, result) ==
    /\ field_fn' = fn
    /\ field_result' = result
    /\ UNCHANGED text
    /\ UNCHANGED <<scrapeVars, catVars, callVars, pdfVars, parseVars, savedVars>>

ExtractEmail ==
    /\ field_fn = "none"
    /\ Returns("extract_email", extract_email(text))

ExtractEmailFromText ==
    /\ field_fn = "none"
    /\ Returns("extract_email_from_text", extract_email_from_text(text))

ExtractPhone ==
    /\ field_fn = "none"
    /\ Returns("extract_phone", extract_phone(text))

ExtractSkills ==
    /\ field_fn = "none"
    /\ \E listed \in extract_skills(text) : Returns("extract_skills", listed)

ExtractName ==
    /\ field_fn = "none"
    /\ Returns("extract_name", extract_name(text))

\* The dict of parse_resume for a text already extracted.
ParseResumeFields ==
    /\ field_fn = "none"
    /\ \E listed \in extract_skills(text) :
         Returns("parse_resume", Profile(text, listed))

NextFields ==
    \/ ParseResumeFields
    \/ ExtractEmail
    \/ ExtractEmailFromText
    \/ ExtractPhone
    \/ ExtractSkills
    \/ ExtractName

\* ------------------------------------------------- concurrent calls
\* Several scrape calls at once, seen from the browser sessions.  driver is
\* a local of each call (0 while it is unbound or None); a session records
\* the call that launched it and the calls that drove and quit it.  The
\* steps of a call that touch no session (query building, the card loop's
\* bookkeeping, the except clause) are part of the step that follows them.
Calls == 1..NumCalls

IdleCalls ==
    /\ calls = <<>>
    /\ sessions = <<>>

InitCalls ==
    /\ calls \in [Calls -> { [impl |-> i, pc |-> "start", driver |-> 0, scrolls |-> 0] :
                              i \in {"main", "scraper"} }]
    /\ sessions = <<>>

\* webdriver.Chrome(...): a new session, owned by the call that launches it.
NewSession(c) == [owner |-> c, state |-> "open", users |-> {}, closers |-> {}]

\* Call c drives the session its driver names.
DrivenBy(c) ==
    [sessions EXCEPT ![calls[c].driver].users = @ \cup {c}]

\* A launch that hands out a session another call has open, as a driver
\* kept in one module-level variable would.
CallSetupDriverShared(c) ==
    /\ calls[c].pc = "start"
    /\ \E ok \in BOOLEAN :
         IF ok
         THEN IF \E s \in DOMAIN sessions : sessions[s].state = "open"
              THEN /\ \E s \in DOMAIN sessions :
                        /\ sessions[s].state = "open"
                        /\ calls' = [calls EXCEPT ![c].driver = s, ![c].pc = "get"]
                   /\ UNCHANGED sessions
              ELSE /\ sessions' = Append(sessions, NewSession(c))
                   /\ calls' = [calls EXCEPT ![c].driver = Len(sessions) + 1,
                                             ![c].pc = "get"]
         ELSE /\ calls' = [calls EXCEPT ![c].pc =
                              IF calls[c].impl = "main" THEN "raised" ELSE "finally"]
              /\ UNCHANGED sessions
    /\ UNCHANGED <<scrapeVars, catVars, fieldVars, pdfVars, parseVars, savedVars>>

\* The launch: main.py 247, setup_driver() in linkedin_scraper.py 74.  A
\* failed launch leaves main.py's call as an exception and takes
\* linkedin_scraper.py's call to its except and finally with driver None.
CallSetupDriver(c) ==
    /\ calls[c].pc = "start"
    /\ \E ok \in BOOLEAN :
         IF ok
         THEN /\ sessions' = Append(sessions, NewSession(c))
              /\ calls' = [calls EXCEPT ![c].driver = Len(sessions) + 1,
                                        ![c].pc = "get"]
         ELSE /\ calls' = [calls EXCEPT ![c].pc =
                              IF calls[c].impl = "main" THEN "raised" ELSE "finally"]
              /\ UNCHANGED sessions
    /\ UNCHANGED <<scrapeVars, catVars, fieldVars, pdfVars, parseVars, savedVars>>

\* Query building, then driver.get(url).  The query can fail before the
\* session is touched (main.py with experience_years None).
CallNavigate(c) ==
    /\ calls[c].pc = "get"
    /\ \E outcome \in {"loaded", "get raised", "query raised"} :
         /\ sessions' = IF outcome = "query raised" THEN sessions ELSE DrivenBy(c)
         /\ outcome = "query raised" => calls[c].impl = "main"
         /\ calls' = [calls EXCEPT ![c].pc =
                         IF outcome # "loaded" THEN "finally"
                         ELSE IF calls[c].impl = "main" THEN "scroll" ELSE "snapshot"]
    /\ UNCHANGED <<scrapeVars, catVars, fieldVars, pdfVars, parseVars, savedVars>>

\* main.py: driver.execute_script in one pass of the scroll loop.
CallScroll(c) ==
    /\ calls[c].pc = "scroll"
    /\ sessions' = DrivenBy(c)
    /\ \E ok \in BOOLEAN :
         calls' = IF ok
                  THEN [calls EXCEPT ![c].scrolls = @ + 1,
                                     ![c].pc = IF calls[c].scrolls + 1 = ScrollSteps
                                               THEN "snapshot" ELSE "scroll"]
                  ELSE [calls EXCEPT ![c].pc = "finally"]
    /\ UNCHANGED <<scrapeVars, catVars, fieldVars, pdfVars, parseVars, savedVars>>

\* driver.page_source / driver.find_elements and the card loop, which reads
\* the elements of the same session.
CallSnapshot(c) ==
    /\ calls[c].pc = "snapshot"
    /\ sessions' = DrivenBy(c)
    /\ calls' = [calls EXCEPT ![c].pc = "finally"]
    /\ UNCHANGED <<scrapeVars, catVars, fieldVars, pdfVars, parseVars, savedVars>>

\* finally: driver.quit() on the call's own driver, then the return.
CallFinally(c) ==
    /\ calls[c].pc = "finally"
    /\ sessions' = IF calls[c].driver = 0 THEN sessions
                   ELSE [sessions EXCEPT ![calls[c].driver].state = "closed",
                                         ![calls[c].driver].closers = @ \cup {c}]
    /\ calls' = [calls EXCEPT ![c].pc = "returned"]
    /\ UNCHANGED <<scrapeVars, catVars, fieldVars, pdfVars, parseVars, savedVars>>

NextCalls ==
    \E c \in Calls :
        \/ CallSetupDriver(c)
        \/ CallNavigate(c)
        \/ CallScroll(c)
        \/ CallSnapshot(c)
        \/ CallFinally(c)

\* ------------------------------------------------- PDF text extraction
\* extract_text_from_pdf (resume_parser.py, pdfplumber) and the extraction
\* inlined in upload_resume (main.py, fitz).  A page is the str its
\* extract_text() / get_text() gives; a page with no extractable text gives
\* the empty str (pdfplumber returns "" for such a page since 0.6).
PageTexts ==
    { <<>>,
      <<"J", "a", "n", "e", "\n">>,
      <<"a", "@", "b", ".", "c", "o">> }

IdlePdf ==
    /\ pdf_fn = "idle"
    /\ pdf_openable = FALSE
    /\ pdf_pages = <<>>
    /\ pdf_pc = "idle"
    /\ pdf_k = 0
    /\ pdf_text = <<>>
    /\ pdf_bad_page = 0

\* text = "" before the document is opened.
PdfArguments ==
    /\ pdf_fn \in {"extract_text_from_pdf", "upload_resume"}
    /\ pdf_openable \in BOOLEAN
    /\ pdf_pages \in SeqsUpTo(PageTexts, MaxPages)
    /\ pdf_bad_page \in 0..Len(pdf_pages)
    /\ pdf_pc = "open"
    /\ pdf_k = 0
    /\ pdf_text = <<>>

\* pdfplumber.open(pdf_path) / fitz.open(temp_path): raises for a file the
\* library cannot open.
PdfOpen ==
    /\ pdf_pc = "open"
    /\ IF pdf_openable
       THEN /\ pdf_pc' = "pages"
            /\ pdf_k' = 1
       ELSE /\ pdf_pc' = "raised"
            /\ UNCHANGED pdf_k
    /\ UNCHANGED <<pdf_fn, pdf_openable, pdf_pages, pdf_text, pdf_bad_page>>
    /\ UNCHANGED <<scrapeVars, catVars, fieldVars, callVars, parseVars, savedVars>>

\* A loop body that ends every page with a newline.
PdfPageWithNewline ==
    /\ pdf_pc = "pages"
    /\ pdf_k <= Len(pdf_pages)
    /\ IF pdf_k = pdf_bad_page
       THEN /\ pdf_pc' = "raised"
            /\ UNCHANGED <<pdf_text, pdf_k>>
       ELSE /\ pdf_text' = pdf_text \o pdf_pages[pdf_k] \o <<"\n">>
            /\ pdf_k' = pdf_k + 1
            /\ UNCHANGED pdf_pc
    /\ UNCHANGED <<pdf_fn, pdf_openable, pdf_pages, pdf_bad_page>>
    /\ UNCHANGED <<scrapeVars, catVars, fieldVars, callVars, parseVars, savedVars>>

\* text += page.extract_text()  /  resume_text += page.get_text(); the
\* library call raises for a page it cannot read.
PdfPage ==
    /\ pdf_pc = "pages"
    /\ pdf_k <= Len(pdf_pages)
    /\ IF pdf_k = pdf_bad_page
       THEN /\ pdf_pc' = "raised"
            /\ UNCHANGED <<pdf_text, pdf_k>>
       ELSE /\ pdf_text' = pdf_text \o pdf_pages[pdf_k]
            /\ pdf_k' = pdf_k + 1
            /\ UNCHANGED pdf_pc
    /\ UNCHANGED <<pdf_fn, pdf_openable, pdf_pages, pdf_bad_page>>
    /\ UNCHANGED <<scrapeVars, catVars, fieldVars, callVars, parseVars, savedVars>>

\* The loop is over: the document is closed and text is the result.
PdfReturn ==
    /\ pdf_pc = "pages"
    /\ pdf_k > Len(pdf_pages)
    /\ pdf_pc' = "done"
    /\ UNCHANGED <<pdf_fn, pdf_openable, pdf_pages, pdf_k, pdf_text, pdf_bad_page>>
    /\ UNCHANGED <<scrapeVars, catVars, fieldVars, callVars, parseVars, savedVars>>

NextPdf == PdfOpen \/ PdfPage \/ PdfReturn

\* -------------------------------------------------------- parse_resume
\* parse_resume (resume_parser.py) called on one document after another.
\* A document is what the library makes of the file: whether it opens, the
\* text of each page, and the page (if any) whose extraction raises.
Doc(openable, pages, bad) ==
    [openable |-> openable, pages |-> pages, bad_page |-> bad]

ParseDocuments ==
    { Doc(FALSE, <<>>, 0),
      Doc(TRUE, <<>>, 0),
      Doc(TRUE, << <<"J", "a", "n", "e", "\n">>, <<"a", "@", "b", ".", "c", "o">> >>, 0),
      Doc(TRUE, << <<"J", "a", "n", "e", "\n">>, <<"a", "@", "b", ".", "c", "o">> >>, 2),
      Doc(TRUE, << <<>>, <<"P", "y", "t", "h", "o", "n", " ", "9", "8", "7", "6", "5", "4", "3", "2", "1", "0">> >>, 0) }

IdleParse ==
    /\ parse_docs = <<>>
    /\ parse_k = 0
    /\ parse_pc = "idle"
    /\ parse_results = <<>>

ParseArguments ==
    /\ parse_docs \in SeqsUpTo(ParseDocuments, MaxDocs)
    /\ parse_k = 1
    /\ parse_pc = "call"
    /\ parse_results = <<>>

\* A call that goes on from the text a previous call left behind, as a
\* module-level text buffer would.
ParseCallKeepingText ==
    /\ parse_pc = "call"
    /\ parse_k <= Len(parse_docs)
    /\ pdf_fn' = "extract_text_from_pdf"
    /\ pdf_openable' = parse_docs[parse_k].openable
    /\ pdf_pages' = parse_docs[parse_k].pages
    /\ pdf_bad_page' = parse_docs[parse_k].bad_page
    /\ pdf_pc' = "open"
    /\ pdf_k' = 0
    /\ UNCHANGED pdf_text
    /\ parse_pc' = "extract"
    /\ UNCHANGED <<parse_docs, parse_k, parse_results>>
    /\ UNCHANGED <<scrapeVars, catVars, fieldVars, callVars, savedVars>>

\* parse_resume(pdf_path) enters its try and calls extract_text_from_pdf,
\* whose text starts as "".
ParseCall ==
    /\ parse_pc = "call"
    /\ parse_k <= Len(parse_docs)
    /\ pdf_fn' = "extract_text_from_pdf"
    /\ pdf_openable' = parse_docs[parse_k].openable
    /\ pdf_pages' = parse_docs[parse_k].pages
    /\ pdf_bad_page' = parse_docs[parse_k].bad_page
    /\ pdf_pc' = "open"
    /\ pdf_k' = 0
    /\ pdf_text' = <<>>
    /\ parse_pc' = "extract"
    /\ UNCHANGED <<parse_docs, parse_k, parse_results>>
    /\ UNCHANGED <<scrapeVars, catVars, fieldVars, callVars, savedVars>>

\* What a call gives its caller: an exception, or a profile.
Outcome(raised_, profile) == [raised |-> raised_, profile |-> profile]

\* return {...} once the text is extracted.
ParseProfile ==
    /\ parse_pc = "extract"
    /\ pdf_pc = "done"
    /\ \E listed \in extract_skills(pdf_text) :
         parse_results' =
             Append(parse_results, Outcome(FALSE, <<Profile(pdf_text, listed)>>))
    /\ parse_k' = parse_k + 1
    /\ parse_pc' = "call"
    /\ UNCHANGED <<parse_docs, pdfVars>>
    /\ UNCHANGED <<scrapeVars, catVars, fieldVars, callVars, savedVars>>

\* except Exception as e: raise Exception(f"Error parsing resume: ...")
ParseExcept ==
    /\ parse_pc = "extract"
    /\ pdf_pc = "raised"
    /\ parse_results' = Append(parse_results, Outcome(TRUE, <<>>))
    /\ parse_k' = parse_k + 1
    /\ parse_pc' = "call"
    /\ UNCHANGED <<parse_docs, pdfVars>>
    /\ UNCHANGED <<scrapeVars, catVars, fieldVars, callVars, savedVars>>

NextParse ==
    \/ ParseCall
    \/ PdfOpen
    \/ PdfPage
    \/ PdfReturn
    \/ ParseProfile
    \/ ParseExcept

\* ------------------------------------------------------------ saved jobs
\* Table users holds a row for two of the three accounts that can sign in.
Emails == {"a@x.io", "b@x.io", "c@x.io"}
users == { [id |-> 1, email |-> "a@x.io"], [id |-> 2, email |-> "b@x.io"] }
Requests == 1..MaxRequests

Row(id, user_id, link) == [id |-> id, user_id |-> user_id, link |-> link]

\* db.query(User).filter(User.email == user_email): email is unique.
UsersWithEmail(email) == {u \in users : u.email = email}

\* The id SQLite gives an inserted row of an INTEGER PRIMARY KEY table: one
\* more than the largest id in the table.
NewId(table) ==
    IF table = {} THEN 1
    ELSE 1 + CHOOSE n \in {j.id : j \in table} :
                 \A j \in table : j.id <= n

NoRequest ==
    [op |-> "none", email |-> "", link |-> "", job_id |-> 0, pc |-> "unsent",
     user_id |-> 0, found |-> 0, status |-> "none", code |-> 0, answer_id |-> 0]

\* The tables as create_all leaves them, no request made.
IdleSaved ==
    /\ saved_jobs = {}
    /\ requests = [r \in Requests |-> NoRequest]
    /\ running = 0
    /\ before = {}

Sendable(r) ==
    /\ requests[r].pc = "unsent"
    /\ IF r = 1 THEN TRUE ELSE requests[r - 1].pc # "unsent"

\* POST /save-job arrives; get_current_user has verified the token.
SendSaveJob(r) ==
    /\ Sendable(r)
    /\ \E email \in Emails, link \in {"https://l/1", "https://l/2"} :
         requests' = [requests EXCEPT ![r] =
                        [NoRequest EXCEPT !.op = "save", !.email = email,
                                          !.link = link, !.pc = "waiting"]]
    /\ UNCHANGED <<saved_jobs, running, before>>
    /\ UNCHANGED <<scrapeVars, catVars, fieldVars, callVars, pdfVars, parseVars>>

\* DELETE /saved-jobs/{job_id} arrives.
SendDeleteSavedJob(r) ==
    /\ Sendable(r)
    /\ \E email \in Emails, job_id \in {1, 2} :
         requests' = [requests EXCEPT ![r] =
                        [NoRequest EXCEPT !.op = "delete", !.email = email,
                                          !.job_id = job_id, !.pc = "waiting"]]
    /\ UNCHANGED <<saved_jobs, running, before>>
    /\ UNCHANGED <<scrapeVars, catVars, fieldVars, callVars, pdfVars, parseVars>>

\* The two queries of save_job for request r, on the table as it is.
SaveJobQueries(r) ==
    LET user == UsersWithEmail(requests[r].email) IN
    IF user = {}
    THEN requests' = [requests EXCEPT ![r].pc = "raise"]
    ELSE \E u \in user :
           LET existing == {j \in saved_jobs : /\ j.user_id = u.id
                                               /\ j.link = requests[r].link}
           IN  IF existing = {}
               THEN requests' = [requests EXCEPT ![r].pc = "add",
                                                 ![r].user_id = u.id]
               ELSE \E j \in existing :
                      requests' = [requests EXCEPT ![r].pc = "existing",
                                                   ![r].user_id = u.id,
                                                   ![r].found = j.id]

\* save_job written as a plain def: the framework runs the handler on a
\* worker thread, so a handler can begin while another is between its
\* query and its commit.
SaveJobQueryInThreadpool(r) ==
    /\ requests[r].op = "save"
    /\ requests[r].pc = "waiting"
    /\ running' = r
    /\ before' = saved_jobs
    /\ SaveJobQueries(r)
    /\ UNCHANGED saved_jobs
    /\ UNCHANGED <<scrapeVars, catVars, fieldVars, callVars, pdfVars, parseVars>>

\* save_job up to the test of existing.  The handler is a coroutine and
\* holds no await, so the event loop begins it only when it runs no other.
SaveJobQuery(r) ==
    /\ requests[r].op = "save"
    /\ requests[r].pc = "waiting"
    /\ running = 0
    /\ running' = r
    /\ before' = saved_jobs
    /\ SaveJobQueries(r)
    /\ UNCHANGED saved_jobs
    /\ UNCHANGED <<scrapeVars, catVars, fieldVars, callVars, pdfVars, parseVars>>

Answer(r, status, code, id) ==
    requests' = [requests EXCEPT ![r].pc = "done", ![r].status = status,
                                 ![r].code = code, ![r].answer_id = id]

\* The rest of save_job: the early return, or add, commit, refresh and
\* return; an exception (the 404 included) leaves as a 500.
SaveJobFinish(r) ==
    /\ requests[r].op = "save"
    /\ \/ /\ requests[r].pc = "raise"
          /\ Answer(r, "error", 500, 0)
          /\ UNCHANGED saved_jobs
       \/ /\ requests[r].pc = "existing"
          /\ Answer(r, "info", 200, requests[r].found)
          /\ UNCHANGED saved_jobs
       \/ /\ requests[r].pc = "add"
          /\ \E committed \in BOOLEAN :
               IF committed
               THEN /\ saved_jobs' = saved_jobs \cup
                         {Row(NewId(saved_jobs), requests[r].user_id,
                              requests[r].link)}
                    /\ Answer(r, "success", 200, NewId(saved_jobs))
               ELSE /\ Answer(r, "error", 500, 0)
                    /\ UNCHANGED saved_jobs
    /\ running' = 0
    /\ UNCHANGED before
    /\ UNCHANGED <<scrapeVars, catVars, fieldVars, callVars, pdfVars, parseVars>>

\* A delete that looks the job up by its id alone.
DeleteSavedJobQueryAnyOwner(r) ==
    /\ requests[r].op = "delete"
    /\ requests[r].pc = "waiting"
    /\ running = 0
    /\ running' = r
    /\ before' = saved_jobs
    /\ LET user == UsersWithEmail(requests[r].email) IN
       IF user = {}
       THEN requests' = [requests EXCEPT ![r].pc = "raise"]
       ELSE \E u \in user :
              LET job == {j \in saved_jobs : j.id = requests[r].job_id}
              IN  IF job = {}
                  THEN requests' = [requests EXCEPT ![r].pc = "raise",
                                                    ![r].user_id = u.id]
                  ELSE requests' = [requests EXCEPT ![r].pc = "delete",
                                                    ![r].user_id = u.id,
                                                    ![r].found = requests[r].job_id]
    /\ UNCHANGED saved_jobs
    /\ UNCHANGED <<scrapeVars, catVars, fieldVars, callVars, pdfVars, parseVars>>

\* delete_saved_job up to the test of job.
DeleteSavedJobQuery(r) ==
    /\ requests[r].op = "delete"
    /\ requests[r].pc = "waiting"
    /\ running = 0
    /\ running' = r
    /\ before' = saved_jobs
    /\ LET user == UsersWithEmail(requests[r].email) IN
       IF user = {}
       THEN requests' = [requests EXCEPT ![r].pc = "raise"]
       ELSE \E u \in user :
              LET job == {j \in saved_jobs : /\ j.id = requests[r].job_id
                                             /\ j.user_id = u.id}
              IN  IF job = {}
                  THEN requests' = [requests EXCEPT ![r].pc = "raise",
                                                    ![r].user_id = u.id]
                  ELSE requests' = [requests EXCEPT ![r].pc = "delete",
                                                    ![r].user_id = u.id,
                                                    ![r].found = requests[r].job_id]
    /\ UNCHANGED saved_jobs
    /\ UNCHANGED <<scrapeVars, catVars, fieldVars, callVars, pdfVars, parseVars>>

\* The rest of delete_saved_job: delete, commit and return; an exception
\* (either 404 included) leaves as a 500.
DeleteSavedJobFinish(r) ==
    /\ requests[r].op = "delete"
    /\ \/ /\ requests[r].pc = "raise"
          /\ Answer(r, "error", 500, 0)
          /\ UNCHANGED saved_jobs
       \/ /\ requests[r].pc = "delete"
          /\ \E committed \in BOOLEAN :
               IF committed
               THEN /\ saved_jobs' = {j \in saved_jobs : j.id # requests[r].found}
                    /\ Answer(r, "success", 200, requests[r].job_id)
               ELSE /\ Answer(r, "error", 500, 0)
                    /\ UNCHANGED saved_jobs
    /\ running' = 0
    /\ UNCHANGED before
    /\ UNCHANGED <<scrapeVars, catVars, fieldVars, callVars, pdfVars, parseVars>>

NextSaved ==
    \E r \in Requests :
       \/ SendSaveJob(r)
       \/ SendDeleteSavedJob(r)
       \/ SaveJobQuery(r)
       \/ SaveJobFinish(r)
       \/ DeleteSavedJobQuery(r)
       \/ DeleteSavedJobFinish(r)

\* ------------------------------------------------------ specifications
\* One scrape call, from its arguments to its return, and the
\* categorization its caller makes of the result.
Init ==
    /\ InitScrape
    /\ IdleCategorize
    /\ IdleFields
    /\ IdleCalls
    /\ IdlePdf
    /\ IdleParse
    /\ IdleSaved

Next ==
    \/ SetupDriver
    \/ BuildQuery
    \/ Navigate
    \/ Scroll
    \/ Snapshot
    \/ ParseCards
    \/ Except
    \/ Finally
    \/ Return
    \/ CategorizeScraped
    \/ CategorizeStep
    \/ CategorizeReturn

Spec == Init /\ [][Next]_vars

\* The steps of one scrape call.
ScrapeCall ==
    \/ SetupDriver
    \/ BuildQuery
    \/ Navigate
    \/ Scroll
    \/ Snapshot
    \/ ParseCards
    \/ Except
    \/ Finally
    \/ Return

\* One scrape call in which every step that is started comes to an end: each
\* wait is a fixed sleep, each loop runs over a fixed range or over a list.
SpecLive == Init /\ [][ScrapeCall]_vars /\ WF_vars(ScrapeCall)

\* A categorize call on a sequence of listings, and a second call on the
\* same sequence.
NextCategorize == CategorizeStep \/ CategorizeReturn \/ CategorizeAgain

InitCategorize ==
    /\ IdleScrape
    /\ CategorizeArguments
    /\ IdleFields
    /\ IdleCalls
    /\ IdlePdf
    /\ IdleParse
    /\ IdleSaved

SpecCategorize == InitCategorize /\ [][NextCategorize]_vars

\* One field extractor applied to one text.
InitFields ==
    /\ IdleScrape
    /\ IdleCategorize
    /\ FieldArguments
    /\ IdleCalls
    /\ IdlePdf
    /\ IdleParse
    /\ IdleSaved

SpecFields == InitFields /\ [][NextFields]_vars

\* NumCalls scrape calls running at once.
InitConcurrent ==
    /\ IdleScrape
    /\ IdleCategorize
    /\ IdleFields
    /\ InitCalls
    /\ IdlePdf
    /\ IdleParse
    /\ IdleSaved

SpecConcurrent == InitConcurrent /\ [][NextCalls]_vars

\* Query building alone, for every skills sequence and location: a call
\* that has launched its browser and is about to build the search URL.
InitQuery ==
    /\ QueryArguments
    /\ IdleCategorize
    /\ IdleFields
    /\ IdleCalls
    /\ IdlePdf
    /\ IdleParse
    /\ IdleSaved

SpecQuery == InitQuery /\ [][BuildQuery]_vars

\* One text extraction from one document.
InitPdf ==
    /\ IdleScrape
    /\ IdleCategorize
    /\ IdleFields
    /\ IdleCalls
    /\ PdfArguments
    /\ IdleParse
    /\ IdleSaved

SpecPdf == InitPdf /\ [][NextPdf]_vars

\* parse_resume called on up to MaxDocs documents in turn.
InitParse ==
    /\ IdleScrape
    /\ IdleCategorize
    /\ IdleFields
    /\ IdleCalls
    /\ IdlePdf
    /\ ParseArguments
    /\ IdleSaved

SpecParse == InitParse /\ [][NextParse]_vars

\* Save-job and delete requests reaching one server process.
InitSaved ==
    /\ IdleScrape
    /\ IdleCategorize
    /\ IdleFields
    /\ IdleCalls
    /\ IdlePdf
    /\ IdleParse
    /\ IdleSaved

SpecSaved == InitSaved /\ [][NextSaved]_vars

\* ================================================================ claims
\* What a listing says of its card: title, company and link.
KeyOfListing(j) == <<j.title, j.company, j.link>>
KeyOfCard(c) == <<c.title, c.company, c.link>>
KeysOfListings(js) == [i \in 1..Len(js) |-> KeyOfListing(js[i])]
KeysOfCards(cs) == [i \in 1..Len(cs) |-> KeyOfCard(cs[i])]

\* A card with a title, a company and a link.
HasTitleCompanyLink(c) ==
    c.title # NoElem /\ c.company # NoElem /\ c.link \notin {NoElem, NoHref}

\* The call ran to its end with no step of the outer try raising.
ScrapedNormally == pc = "returned" /\ failedAt = "none" /\ ~raised

\* C1: a scrape call quits the session it opened exactly once before it
\* returns, on every path (success, navigation raised, reading the cards
\* raised); after the return no session of the call is open.
C1_SessionReleasedOnce ==
    /\ opened <= 1
    /\ quits <= opened
    /\ pc \in {"return", "returned"} => (quits = opened /\ driver # "open")

C1_Witness ==
    /\ pc = "returned"
    /\ failedAt \in {"navigate", "snapshot"}
    /\ opened = 1 /\ quits = 1 /\ driver = "closed"

\* C2: when the page has no more cards than the cap, the result is exactly
\* the cards that have title, company and link, in page order, and no
\* exception reaches the caller.
C2_MalformedCardsSkipped ==
    (pc = "returned" /\ failedAt = "none" /\ Len(page) <= max_jobs)
        => /\ ~raised
           /\ KeysOfListings(ret) = KeysOfCards(SelectSeq(page, HasTitleCompanyLink))

\* The cards an implementation turns into listings.
AcceptedBy(which, c) ==
    IF which = "main" THEN HasTitleCompanyLink(c)
    ELSE c.title # NoElem /\ c.company # NoElem /\ c.location # NoElem /\ c.link # NoElem

AcceptedByImpl(c) == AcceptedBy(impl, c)

LinkOfCard(c) == IF c.link = NoHref THEN None ELSE c.link

\* The listings are those of the cards, one for one and in order.
ListingsOfCards(listings, cards) ==
    /\ Len(listings) = Len(cards)
    /\ \A i \in 1..Len(listings) :
         /\ listings[i].title = cards[i].title
         /\ listings[i].company = cards[i].company
         /\ listings[i].link = LinkOfCard(cards[i])

\* C3 as claimed: the result is the first cap cards of the whole page that
\* the implementation accepts (all of them when there are fewer), however
\* many malformed cards precede them.
C3_FirstCapValidOfPage ==
    ScrapedNormally
        => ListingsOfCards(ret, PySlice(SelectSeq(page, AcceptedByImpl), max_jobs))

CardWindow == PySlice(page, IF impl = "main" THEN 2 * max_jobs ELSE max_jobs)

\* C3 (amended): for a cap >= 0 only a leading window of the page is examined
\* (the first 2*cap cards in main.py, the first cap cards in
\* linkedin_scraper.py); the result is the accepted cards of that window in
\* page order, cut to cap, and never holds more than cap listings.
C3_CapOverLeadingWindow ==
    ScrapedNormally
        => /\ Len(ret) <= max_jobs
           /\ ListingsOfCards(ret, PySlice(SelectSeq(CardWindow, AcceptedByImpl), max_jobs))

\* A page with a valid card behind a window full of malformed cards.
C3_Witness ==
    /\ ScrapedNormally
    /\ impl = "main"
    /\ max_jobs = 1
    /\ Len(page) = 3
    /\ ~HasTitleCompanyLink(page[1])
    /\ ~HasTitleCompanyLink(page[2])
    /\ HasTitleCompanyLink(page[3])
    /\ ret = <<>>

RECURSIVE IsSubsequence(_, _)
IsSubsequence(a, b) ==
    IF a = <<>> THEN TRUE
    ELSE IF b = <<>> THEN FALSE
    ELSE IF Head(a) = Head(b) THEN IsSubsequence(Tail(a), Tail(b))
    ELSE IsSubsequence(a, Tail(b))

Occurrences(x, s) == Cardinality({i \in 1..Len(s) : s[i] = x})

\* C4: categorize files every listing in exactly one of the two output
\* sequences, the lengths add up to the input's, and each output keeps the
\* input's relative order.
C4_CategorizePartition ==
    cat_pc = "done"
        => LET direct == cat_ret.direct_contact_jobs
               standard == cat_ret.standard_jobs
           IN  /\ Len(direct) + Len(standard) = Len(cat_jobs)
               /\ IsSubsequence(direct, cat_jobs)
               /\ IsSubsequence(standard, cat_jobs)
               /\ \A i \in 1..Len(cat_jobs) :
                    LET j == cat_jobs[i]
                    IN  /\ Occurrences(j, direct) + Occurrences(j, standard)
                             = Occurrences(j, cat_jobs)
                        /\ Occurrences(j, direct) = 0 \/ Occurrences(j, standard) = 0

C4_Witness ==
    /\ cat_pc = "done"
    /\ Len(cat_jobs) = 3
    /\ Len(cat_ret.direct_contact_jobs) = 2
    /\ Len(cat_ret.standard_jobs) = 1
    /\ cat_ret.direct_contact_jobs[1] # cat_ret.direct_contact_jobs[2]

\* The level of the specification's table that a label of the code names.
TableLevel(label) ==
    IF label \in {"Internship", "&f_E=1", "Fresher/Internship (0 years)"}
        THEN "Internship"
    ELSE IF label \in {"Entry level", "&f_E=1,2", "Entry Level (0-2 years)"}
        THEN "Entry"
    ELSE IF label \in {"Associate", "&f_E=3,4", "Mid Level (2-5 years)"}
        THEN "Associate"
    ELSE IF label \in {"Mid-Senior level", "&f_E=5,6", "Senior Level (5+ years)"}
        THEN "Senior"
    ELSE "none"

TableLevelOfYears(y) ==
    IF y = 0 THEN "Internship"
    ELSE IF y \in 1..2 THEN "Entry"
    ELSE IF y \in 3..5 THEN "Associate"
    ELSE IF y > 5 THEN "Senior"
    ELSE "none"

SurvivingEmails(t) ==
    SelectSeq(findall("email", t),
              LAMBDA e : /\ ~Contains(lower(e), <<"n", "o", "r", "e", "p", "l", "y">>)
                         /\ ~Contains(lower(e), <<"n", "o", "-", "r", "e", "p", "l", "y">>)
                         /\ ~Contains(lower(e),
                                      <<"d", "o", "n", "o", "t", "r", "e", "p", "l", "y">>))

Jane_at_corp ==
    <<"j", "a", "n", "e", "@", "c", "o", "r", "p", ".", "c", "o", "m">>

\* C6: extract_email returns the first address of the text that holds no
\* denylisted word, None when there is none; for the text
\* "contact: noreply@corp.com, jane@corp.com" that is jane@corp.com.
C6_FirstSurvivingEmail ==
    field_fn = "extract_email"
        => /\ field_result = PySlice(SurvivingEmails(text), 1)
           /\ text = Ex_Contact => field_result = <<Jane_at_corp>>

ListedPhonePatterns ==
    <<"+91 sep 10 digits", "+91 10 digits", "10 digits", "5 digits 5 digits">>

\* Where in a text a pattern matches.
MatchStarts(pattern, t) == {s \in 1..Len(t) : MatchEnd(pattern, t, s) # 0}

WithoutSpacesAndHyphens(s) == SelectSeq(s, LAMBDA c : c \notin {" ", "-"})

Phone_plus91 ==
    <<"+", "9", "1", "9", "8", "7", "6", "5", "4", "3", "2", "1", "0">>

Phone_plain ==
    <<"9", "8", "7", "6", "5", "4", "3", "2", "1", "0">>

\* C7: extract_phone returns (cleaned) the leftmost match of the first
\* listed pattern that matches anywhere in the text, wherever the matches of
\* the later patterns are; None when no pattern matches.
C7_PhonePatternPrecedence ==
    field_fn = "extract_phone"
        => LET hits == {k \in 1..Len(ListedPhonePatterns) :
                           MatchStarts(ListedPhonePatterns[k], text) # {}}
           IN  IF hits = {} THEN field_result = <<>>
               ELSE LET p == ListedPhonePatterns[Minimum(hits)]
                        s == Minimum(MatchStarts(p, text))
                    IN  field_result
                          = <<WithoutSpacesAndHyphens(SubSeq(text, s, MatchEnd(p, text, s) - 1))>>

\* A match of the fourth pattern starts the text, a match of the first
\* pattern comes later, and the first pattern's match is returned.
C7_Witness ==
    /\ field_fn = "extract_phone"
    /\ text = Ex_PhoneLaterPattern
    /\ MatchEnd("5 digits 5 digits", text, 1) # 0
    /\ Minimum(MatchStarts("+91 sep 10 digits", text)) > 1
    /\ field_result = <<Phone_plus91>>

\* C8: the returned phone is a match with its spaces and hyphens taken out,
\* so it holds neither; "+91-9876543210" gives "+919876543210" and
\* "9876543210" gives itself.
C8_PhoneNormalized ==
    (field_fn = "extract_phone" /\ field_result # <<>>)
        => LET phone == field_result[1]
           IN  /\ \A i \in 1..Len(phone) : phone[i] # " " /\ phone[i] # "-"
               /\ \E k \in 1..Len(ListedPhonePatterns) :
                    \E s \in MatchStarts(ListedPhonePatterns[k], text) :
                       phone = WithoutSpacesAndHyphens(
                                   SubSeq(text, s, MatchEnd(ListedPhonePatterns[k], text, s) - 1))
               /\ text = PhonePieces[1] => phone = Phone_plus91
               /\ text = Phone_plain => phone = Phone_plain

C8_Witness ==
    /\ field_fn = "extract_phone"
    /\ text = PhonePieces[1]
    /\ Contains(text, <<"-">>)
    /\ field_result = <<Phone_plus91>>

\* The vocabulary terms that occur in a text, letter case ignored.
TermsIn(t) ==
    {k \in 1..Len(skill_keywords) :
        \E i \in 1..Len(t) :
            \A j \in 1..Len(skill_keywords[k]) :
                /\ i + j - 1 <= Len(t)
                /\ lower(<<t[i + j - 1]>>) = <<skill_keywords[k][j]>>}

Skill_Python == <<"P", "y", "t", "h", "o", "n">>
Skill_React == <<"R", "e", "a", "c", "t">>

\* C9: extract_skills returns the title-cased vocabulary terms that occur in
\* the text (case-insensitive substring test), each once and nothing else;
\* for "Experienced in Python and React development" exactly Python and
\* React.
C9_SkillsExactlyOnce ==
    field_fn = "extract_skills"
        => LET returned == {field_result[i] : i \in 1..Len(field_result)}
               terms == TermsIn(text)
           IN  /\ returned = {title(skill_keywords[k]) : k \in terms}
               /\ Len(field_result) = Cardinality(terms)
               /\ text = Ex_Skills => returned = {Skill_Python, Skill_React}

C9_Witness ==
    /\ field_fn = "extract_skills"
    /\ text = Ex_Skills
    /\ field_result = <<Skill_React, Skill_Python>>

\* The lines of a text, by the positions of its newlines.
Newlines(t) == {i \in 1..Len(t) : t[i] = "\n"}
LineCount(t) == Cardinality(Newlines(t)) + 1
NthNewline(t, n) ==
    CHOOSE p \in Newlines(t) : Cardinality({q \in Newlines(t) : q <= p}) = n
LineOf(t, k) ==
    SubSeq(t,
           IF k = 1 THEN 1 ELSE NthNewline(t, k - 1) + 1,
           IF k = LineCount(t) THEN Len(t) ELSE NthNewline(t, k) - 1)

\* A line that can be a name: not blank, at most 4 words, no "@".
CanBeName(line) ==
    /\ \E i \in 1..Len(line) : line[i] \notin Whitespace
    /\ WordCount(line) <= 4
    /\ \A i \in 1..Len(line) : line[i] # "@"

Name_JaneADoe == <<"J", "a", "n", "e", " ", "A", ".", " ", "D", "o", "e">>

\* C10: extract_name returns (trimmed) the first of the first 5 lines that
\* is not blank, has at most 4 words and no "@", and None when none of those
\* 5 lines qualifies, whatever the later lines are.
C10_NameFromFirstFiveLines ==
    field_fn = "extract_name"
        => LET good == {k \in 1..Min(5, LineCount(text)) : CanBeName(LineOf(text, k))}
           IN  /\ IF good = {} THEN field_result = <<>>
                  ELSE field_result = <<strip(LineOf(text, Minimum(good)))>>
               /\ text = Ex_Name => field_result = <<Name_JaneADoe>>

\* Only the sixth line qualifies, and nothing is returned.
C10_Witness ==
    /\ field_fn = "extract_name"
    /\ text = Ex_NameSixthLine
    /\ LineCount(text) = 6
    /\ CanBeName(LineOf(text, 6))
    /\ field_result = <<>>

\* C11: when the browser cannot be launched, the scrape call hands its
\* caller an empty result.  (main.py builds the driver before its try, so
\* the launch error leaves the call as an exception.)
C11_LaunchFailureReturnsEmpty ==
    (pc = "returned" /\ failedAt = "launch") => (~raised /\ ret = <<>>)

\* C12: the search page is loaded at most once per call, and a call whose
\* page load failed reads no page and returns the empty result.
C12_NavigationFailureReturnsEmpty ==
    /\ gets <= 1
    /\ (pc = "returned" /\ failedAt = "navigate")
          => /\ ~raised
             /\ ret = <<>>
             /\ gets = 1
             /\ scrolls = 0
             /\ page = <<>>

C12_Witness ==
    /\ pc = "returned"
    /\ failedAt = "navigate"
    /\ impl = "main"
    /\ gets = 1
    /\ ret = <<>>

\* C13: with several scrape calls running at once, a call owns exactly the
\* session its driver names and no other, and every session has been
\* driven (navigated, scrolled, read) and quit by its owner only.
SessionsOf(c) == {s \in DOMAIN sessions : sessions[s].owner = c}

C13_SessionsPrivate ==
    /\ \A s \in DOMAIN sessions :
          /\ sessions[s].users \subseteq {sessions[s].owner}
          /\ sessions[s].closers \subseteq {sessions[s].owner}
          /\ sessions[s].state = "closed" <=> sessions[s].closers # {}
    /\ \A c \in DOMAIN calls :
          /\ SessionsOf(c) = IF calls[c].driver = 0 THEN {} ELSE {calls[c].driver}
          /\ calls[c].pc \in {"get", "scroll", "snapshot"} => calls[c].driver # 0
    /\ \A c, d \in DOMAIN calls :
          (c # d /\ calls[c].driver # 0) => calls[c].driver # calls[d].driver

C13_Witness ==
    /\ DOMAIN calls = Calls
    /\ calls[1].pc = "scroll"
    /\ calls[1].scrolls = 3
    /\ calls[2].pc = "returned"
    /\ calls[2].driver # 0
    /\ sessions[calls[1].driver].state = "open"
    /\ sessions[calls[1].driver].users = {1}
    /\ sessions[calls[2].driver].users = {2}
    /\ sessions[calls[2].driver].closers = {2}

\* C14: every listing a scrape call returns has a non-empty title, a
\* non-empty company and a non-empty apply link.  (Neither card loop looks
\* at the text it read: an element with empty text passes.)
Populated(x) == x \notin {"", None, NoElem, NoHref}

C14_ListingsPopulated ==
    (pc = "returned" /\ ~raised)
      => \A i \in DOMAIN ret :
            /\ Populated(ret[i].title)
            /\ Populated(ret[i].company)
            /\ Populated(ret[i].link)

\* C15: a card of the examined window that has a title, a company and a
\* link but no location gives a listing whose location is the location the
\* search was made for.  (linkedin_scraper.py skips such a card.)
C15_LocationFallsBack ==
    ScrapedNormally
      => \A k \in DOMAIN CardWindow :
            (HasTitleCompanyLink(CardWindow[k]) /\ CardWindow[k].location = NoElem)
              => \E i \in DOMAIN jobs :
                    /\ KeyOfListing(jobs[i]) = KeyOfCard(CardWindow[k])
                    /\ jobs[i].location = location

\* C16: no listing a scrape call returns carries a contact address, and
\* the categorization of the returned list files every listing under
\* standard and none under direct contact.
C16_ScrapedAllStandard ==
    /\ (pc = "returned" /\ ~raised)
         => \A i \in DOMAIN ret : GetHrEmail(ret[i]) = None
    /\ (pc = "returned" /\ cat_pc = "done")
         => /\ cat_jobs = ret
            /\ cat_ret.direct_contact_jobs = <<>>
            /\ cat_ret.standard_jobs = ret
            /\ cat_ret.total_jobs = Len(ret)

C16_Witness ==
    /\ pc = "returned"
    /\ cat_pc = "done"
    /\ impl = "scraper"
    /\ Len(ret) = 2
    /\ cat_ret.standard_jobs = ret

\* C17: with experience_years None, query building neither fails nor
\* filters: once the query is built the call goes on with no experience
\* filter.  (main.py compares None with 2, which raises TypeError.)
QueryBuilt == pc \notin {"start", "build", "idle"} /\ failedAt # "launch"

C17_AbsentYearsAllLevels ==
    (experience_years = <<>> /\ QueryBuilt)
      => /\ failedAt # "level"
         /\ experience_level = ""

\* C18: the search URL a call builds holds no raw space, whatever the
\* skills and the location.  (linkedin_scraper.py puts the skills and the
\* location into the URL as they are.)
C18_UrlHasNoRawSpace ==
    \A i \in DOMAIN url : url[i] # " "

\* Two skills sequences with the same first three elements (or the same
\* elements, when shorter than three).
AgreeOnFirstThree(a, b) ==
    \A i \in 1..3 :
        /\ i <= Len(a) <=> i <= Len(b)
        /\ i <= Len(a) => a[i] = b[i]

UrlBuiltFor(s) ==
    IF impl = "main" THEN Main_url(s, location, experience_level)
    ELSE Scraper_url(s, location, experience_years)

\* C19: the URL built for a skills sequence is the URL built for every
\* sequence that agrees with it on the first three skills, and query
\* building raises for no skills sequence, whatever its length (the only
\* failure of query building is main.py's with experience_years None).
C19_OnlyFirstThreeSkills ==
    /\ url # <<>>
         => \A other \in QuerySkills :
               AgreeOnFirstThree(skills, other) => UrlBuiltFor(other) = url
    /\ pc # "build"
         => IF impl = "main" /\ experience_years = <<>>
            THEN failedAt = "level"
            ELSE failedAt = "none" /\ url # <<>>

C19_Witness ==
    /\ impl = "scraper"
    /\ experience_years = <<2>>
    /\ Len(skills) = 4
    /\ skills[4] = <<"m", "a", "c", "h", "i", "n", "e", " ", "l", "e", "a", "r",
                                  "n", "i", "n", "g">>
    /\ url =
        <<"h", "t", "t", "p", "s", ":", "/", "/", "w", "w", "w", ".", "l",
                  "i", "n", "k", "e", "d", "i", "n", ".", "c", "o", "m", "/", "j",
                  "o", "b", "s", "/", "s", "e", "a", "r", "c", "h", "/", "?", "k",
                  "e", "y", "w", "o", "r", "d", "s", "=", "P", "y", "t", "h", "o",
                  "n", "+", "R", "e", "a", "c", "t", "+", "P", "y", "t", "h", "o",
                  "n", "&", "l", "o", "c", "a", "t", "i", "o", "n", "=", "I", "n",
                  "d", "i", "a", "&", "f", "_", "E", "=", "1", ",", "2">>

\* The length of the first k pages' texts put end to end.
RECURSIVE LengthOfPages(_, _)
LengthOfPages(pages, k) ==
    IF k = 0 THEN 0 ELSE LengthOfPages(pages, k - 1) + Len(pages[k])

\* C20: for a document the library opens, the extracted text is the pages'
\* texts in page order with nothing between them: page k's text sits right
\* after the texts of the pages before it and the text ends with the last
\* page.  A page with no text adds nothing; the extraction fails only for a
\* document the library cannot open or a page it cannot read.
C20_PagesConcatenated ==
    /\ pdf_pc = "done"
         => /\ Len(pdf_text) = LengthOfPages(pdf_pages, Len(pdf_pages))
            /\ \A k \in DOMAIN pdf_pages :
                  SubSeq(pdf_text, LengthOfPages(pdf_pages, k - 1) + 1,
                         LengthOfPages(pdf_pages, k)) = pdf_pages[k]
    /\ pdf_pc = "raised" => (~pdf_openable \/ pdf_bad_page # 0)

C20_Witness ==
    /\ pdf_pc = "done"
    /\ pdf_fn = "extract_text_from_pdf"
    /\ Len(pdf_pages) = 3
    /\ pdf_pages[1] # <<>>
    /\ pdf_pages[2] = <<>>
    /\ pdf_pages[3] # <<>>
    /\ pdf_text = pdf_pages[1] \o pdf_pages[3]

\* The text of a document's pages put end to end.
RawTextOf(doc) == Concat(doc.pages)

Readable(doc) == doc.openable /\ doc.bad_page = 0

\* C21: a parse_resume call on a document that cannot be opened or read
\* ends in an exception and gives no profile; whatever the calls before it
\* did, a call on a readable document gives the profile of that document's
\* own text.
C21_UnreadableDocumentFails ==
    \A k \in DOMAIN parse_results :
        IF Readable(parse_docs[k])
        THEN /\ ~parse_results[k].raised
             /\ Len(parse_results[k].profile) = 1
             /\ \E listed \in extract_skills(RawTextOf(parse_docs[k])) :
                   parse_results[k].profile[1]
                       = Profile(RawTextOf(parse_docs[k]), listed)
        ELSE /\ parse_results[k].raised
             /\ parse_results[k].profile = <<>>

C21_Witness ==
    /\ Len(parse_results) = 2
    /\ parse_docs[1].bad_page = 2
    /\ parse_results[1].raised
    /\ Readable(parse_docs[2])
    /\ parse_docs[2].pages # <<>>
    /\ ~parse_results[2].raised
    /\ parse_results[2].profile[1].raw_text = RawTextOf(parse_docs[2])

\* What a text must hold for an extractor to find something.
HoldsNoChar(t, C) == \A i \in 1..Len(t) : t[i] \notin C

NoNameLine(t) ==
    \A k \in 1..Min(5, LineCount(t)) : ~CanBeName(LineOf(t, k))

\* C22: on every text each extractor returns a value, never an exception:
\* None for a text with no "@" (email), with no digit (phone), with no
\* qualifying line among the first five (name), the empty list for a text
\* holding no vocabulary term (skills); all of them for the empty text.  The
\* dict of parse_resume then holds each extractor's value and the text.
C22_ExtractorsReturnAbsent ==
    /\ field_fn \in {"extract_email", "extract_phone", "extract_skills", "extract_name"}
         => /\ field_result # Raises("IndexError")
            /\ text = <<>> => field_result = <<>>
    /\ (field_fn = "extract_email" /\ HoldsNoChar(text, {"@"}))
         => field_result = <<>>
    /\ (field_fn = "extract_phone" /\ HoldsNoChar(text, Digit))
         => field_result = <<>>
    /\ (field_fn = "extract_skills" /\ TermsIn(text) = {})
         => field_result = <<>>
    /\ (field_fn = "extract_name" /\ NoNameLine(text))
         => field_result = <<>>
    /\ field_fn = "parse_resume"
         => /\ DOMAIN field_result = {"name", "email", "phone", "skills", "raw_text"}
            /\ field_result.raw_text = text
            /\ field_result.email # Raises("IndexError")
            /\ HoldsNoChar(text, {"@"}) => field_result.email = <<>>
            /\ HoldsNoChar(text, Digit) => field_result.phone = <<>>
            /\ TermsIn(text) = {} => field_result.skills = <<>>
            /\ NoNameLine(text) => field_result.name = <<>>

\* A text with a phone number and nothing else: the profile has the phone,
\* and None or the empty list for the rest.
C22_Witness ==
    /\ field_fn = "parse_resume"
    /\ text = Phone_plain
    /\ field_result.phone = <<Phone_plain>>
    /\ field_result.email = <<>>
    /\ field_result.skills = <<>>

\* C23: the summary of a categorize call counts the input and the two
\* output lists: total_jobs is the length of the input and the sum of the
\* two counts, jobs_with_email and jobs_without_email are the lengths of
\* direct_contact_jobs and standard_jobs.  (search_jobs reports the two lists
\* themselves under jobs_with_email and jobs_without_email.)
C23_SummaryCounts ==
    cat_pc = "done"
        => /\ cat_ret.total_jobs = Len(cat_jobs)
           /\ IF cat_fn = "categorize_jobs"
              THEN /\ cat_ret.jobs_with_email = Len(cat_ret.direct_contact_jobs)
                   /\ cat_ret.jobs_without_email = Len(cat_ret.standard_jobs)
                   /\ cat_ret.total_jobs
                        = cat_ret.jobs_with_email + cat_ret.jobs_without_email
              ELSE /\ cat_ret.jobs_with_email = cat_ret.direct_contact_jobs
                   /\ cat_ret.jobs_without_email = cat_ret.standard_jobs
                   /\ cat_ret.total_jobs
                        = Len(cat_ret.jobs_with_email) + Len(cat_ret.jobs_without_email)

C23_Witness ==
    /\ cat_pc = "done"
    /\ cat_fn = "categorize_jobs"
    /\ cat_ret.total_jobs = 3
    /\ cat_ret.jobs_with_email = 1
    /\ cat_ret.jobs_without_email = 2

\* C24: a categorize call changes neither its input list nor anything
\* outside its own locals, and a second call on the same list returns what
\* the first returned.
C24_CategorizePure ==
    /\ [](cat_call = 2 /\ cat_pc = "done" => cat_ret = cat_first)
    /\ [][/\ cat_jobs' = cat_jobs
          /\ UNCHANGED <<scrapeVars, fieldVars, callVars, pdfVars, parseVars, savedVars>>]_vars

C24_Witness ==
    /\ cat_call = 2
    /\ cat_pc = "done"
    /\ Len(cat_jobs) = 2
    /\ Len(cat_first.direct_contact_jobs) = 1
    /\ cat_ret = cat_first

\* The rendered content has been read for parsing.
ContentRead ==
    \/ pc = "parse"
    \/ pc \in {"finally", "return", "returned"} /\ failedAt = "none" /\ ~raised

\* C25: in main.py's call the scroll step runs only after the one page load
\* and before the content is read, never more than the fixed count, and the
\* content is read only when exactly that many steps were made, whatever page
\* is loaded; every call comes to its end.
C25_FixedScrollCount ==
    /\ [](impl = "main"
            => /\ scrolls <= ScrollSteps
               /\ scrolls > 0 => gets = 1
               /\ pc = "snapshot" => scrolls = ScrollSteps
               /\ ContentRead => scrolls = ScrollSteps)
    /\ [][scrolls' # scrolls
            => /\ scrolls' = scrolls + 1
               /\ gets = 1
               /\ ~ContentRead
               /\ page = <<>>]_vars
    /\ <>(pc = "returned")

C25_Witness ==
    /\ impl = "main"
    /\ pc = "returned"
    /\ gets = 1
    /\ scrolls = ScrollSteps
    /\ Len(page) = 3
    /\ Len(ret) = 1

\* Request r's handler returns or raises in this step.
Finishes(r) == requests[r].pc # "done" /\ requests'[r].pc = "done"

IdsOf(table) == {j.id : j \in table}

\* The rows the user of save-job request r holds for the request's link.
SavedAlready(r) ==
    {j \in saved_jobs :
       /\ j.link = requests[r].link
       /\ \E u \in UsersWithEmail(requests[r].email) : j.user_id = u.id}

\* C26: no user ever holds two saved jobs with one link, however the
\* requests in flight are ordered; a save-job request for a link its user
\* holds already adds no row and answers with that row's id; one for a link
\* its user does not hold, whoever else holds it, adds one row for that user
\* (or fails and adds none).
C26_NoDuplicateSavedJob ==
    /\ [](\A j \in saved_jobs, k \in saved_jobs :
             (j.user_id = k.user_id /\ j.link = k.link) => j = k)
    /\ [][\A r \in Requests :
            (requests[r].op = "save" /\ Finishes(r))
               => IF SavedAlready(r) # {}
                  THEN /\ saved_jobs' = saved_jobs
                       /\ requests'[r].status = "info"
                       /\ requests'[r].answer_id \in IdsOf(SavedAlready(r))
                  ELSE \/ /\ requests'[r].status = "error"
                          /\ saved_jobs' = saved_jobs
                       \/ /\ requests'[r].status = "success"
                          /\ requests'[r].answer_id \notin IdsOf(saved_jobs)
                          /\ \E u \in UsersWithEmail(requests[r].email) :
                               saved_jobs' = saved_jobs \cup
                                   {Row(requests'[r].answer_id, u.id,
                                        requests[r].link)}]_vars

\* Two requests of one user for one link were in flight together (the later
\* one was handled first), and another user saved the same link.
C26_Witness ==
    /\ requests[1].op = "save" /\ requests[1].email = "a@x.io"
    /\ requests[2].op = "save" /\ requests[2].email = "a@x.io"
    /\ requests[1].link = requests[2].link
    /\ requests[2].status = "success"
    /\ requests[1].status = "info"
    /\ requests[1].answer_id = requests[2].answer_id
    /\ requests[3].op = "save" /\ requests[3].email = "b@x.io"
    /\ requests[3].link = requests[1].link
    /\ requests[3].status = "success"
    /\ Cardinality(saved_jobs) = 2

\* The rows with the id delete request r names that its user holds.
OwnedJob(r) ==
    {j \in saved_jobs :
       /\ j.id = requests[r].job_id
       /\ \E u \in UsersWithEmail(requests[r].email) : j.user_id = u.id}

\* C27: a row leaves saved_jobs only in the step in which a delete request
\* naming its id, made by its owner, ends; a delete request naming no row of
\* its user ends in an error with the table as it was when its handler
\* began; a delete that succeeds removes the named row and no other.
C27_DeleteOnlyOwnJob ==
    /\ [][\A j \in saved_jobs \ saved_jobs' :
            \E r \in Requests :
               /\ requests[r].op = "delete"
               /\ Finishes(r)
               /\ j \in OwnedJob(r)]_vars
    /\ [][\A r \in Requests :
            (requests[r].op = "delete" /\ Finishes(r))
               => /\ saved_jobs = before
                  /\ IF OwnedJob(r) = {}
                     THEN /\ requests'[r].status = "error"
                          /\ saved_jobs' = before
                     ELSE \/ /\ requests'[r].status = "error"
                             /\ saved_jobs' = before
                          \/ /\ requests'[r].status = "success"
                             /\ requests'[r].answer_id = requests[r].job_id
                             /\ Cardinality(OwnedJob(r)) = 1
                             /\ saved_jobs' = before \ OwnedJob(r)]_vars

\* One user's job was named by another user's delete request, which ended
\* in an error, and by its owner's, which removed it.
C27_Witness ==
    /\ requests[1].op = "save" /\ requests[1].email = "a@x.io"
    /\ requests[1].status = "success"
    /\ requests[2].op = "delete" /\ requests[2].email = "b@x.io"
    /\ requests[2].job_id = requests[1].answer_id
    /\ requests[2].status = "error"
    /\ requests[3].op = "delete" /\ requests[3].email = "a@x.io"
    /\ requests[3].job_id = requests[1].answer_id
    /\ requests[3].status = "success"
    /\ before = {Row(1, 1, requests[1].link)}
    /\ saved_jobs = {}

====
